---- MODULE Spec2Model ----
(***************************************************************************)
(* A model of qss_parser.py: the line-oriented QSS parser (QSSParser with  *)
(* its three plugins, the property processor, the variable manager and the *)
(* rule store) and the independent syntax checker (QSSSyntaxChecker).      *)
(*                                                                         *)
(* Text is modelled as Python models it: a string is a sequence of         *)
(* symbols.  A symbol is one punctuation character, one blank, one line    *)
(* break, or one word (a maximal run of \w characters, kept atomic).       *)
(* Every string operation of the source (strip, split, startswith, the     *)
(* regular expressions) is computed on these sequences.                    *)
(***************************************************************************)
EXTENDS Naturals, Integers, Sequences, FiniteSets, TLC

\* ------------------------------------------------------------------------
\* Symbols
\* ------------------------------------------------------------------------

SP == " "
NL == "\n"
Whitespace == {SP, NL}

\* words whose first character is a letter, and words made of digits
AlphaWords == {"X", "Y", "a", "b", "c", "d", "v", "x", "color", "blue", "hover",
               "var", "variables"}
DigitWords == {"1", "2"}
\* the placeholder words normalize_selector writes for attribute clauses
PlaceholderWords == <<"__ATTR_0__", "__ATTR_1__", "__ATTR_2__">>
Words == AlphaWords \cup DigitWords \cup {PlaceholderWords[i] : i \in DOMAIN PlaceholderWords}

\* Python's None where a str is expected, and where an error message is expected
None == <<"None">>
NoError == [kind |-> "None", line |-> 0, text |-> <<>>]

\* ------------------------------------------------------------------------
\* Python str operations on symbol sequences
\* ------------------------------------------------------------------------

\* Let(e, LAMBDA x : body) is body with x naming the value of e
Let(e, Body(_)) == Body(e)

Min(S) == CHOOSE x \in S : \A y \in S : x <= y
Max(S) == CHOOSE x \in S : \A y \in S : x >= y

\* str.strip()
Strip(s) ==
    Let({i \in 1..Len(s) : s[i] \notin Whitespace}, LAMBDA idx :
        IF idx = {} THEN <<>> ELSE SubSeq(s, Min(idx), Max(idx)))

\* str.startswith / str.endswith / `p in s`
StartsWith(s, p) == Len(s) >= Len(p) /\ SubSeq(s, 1, Len(p)) = p
EndsWith(s, p) == Len(s) >= Len(p) /\ SubSeq(s, Len(s) - Len(p) + 1, Len(s)) = p
Contains(s, p) == \E i \in 1..(Len(s) - Len(p) + 1) : SubSeq(s, i, i + Len(p) - 1) = p

\* position of the first occurrence of symbol c in s, 0 when absent
IndexOf(s, c) ==
    Let({i \in 1..Len(s) : s[i] = c}, LAMBDA idx :
        IF idx = {} THEN 0 ELSE Min(idx))

\* str.split(c) for a one-character separator: always at least one piece
RECURSIVE Split(_, _)
Split(s, c) ==
    Let(IndexOf(s, c), LAMBDA i :
        IF i = 0 THEN <<s>>
        ELSE <<SubSeq(s, 1, i - 1)>> \o Split(SubSeq(s, i + 1, Len(s)), c))

\* str.split(c, 1): one or two pieces
SplitOnce(s, c) ==
    Let(IndexOf(s, c), LAMBDA i :
        IF i = 0 THEN <<s>>
        ELSE <<SubSeq(s, 1, i - 1), SubSeq(s, i + 1, Len(s))>>)

\* str.rstrip(c): drop every trailing c
RStripChar(s, c) ==
    Let({i \in 1..Len(s) : s[i] # c}, LAMBDA idx :
        IF idx = {} THEN <<>> ELSE SubSeq(s, 1, Max(idx)))

\* sep.join(parts)
RECURSIVE Join(_, _)
Join(parts, sep) ==
    IF parts = <<>> THEN <<>>
    ELSE IF Len(parts) = 1 THEN parts[1]
    ELSE parts[1] \o sep \o Join(Tail(parts), sep)

\* str.splitlines(): a trailing line break opens no further line
SplitLines(s) ==
    IF s = <<>> THEN <<>>
    ELSE Let(Split(s, NL), LAMBDA ps :
             IF ps[Len(ps)] = <<>> THEN SubSeq(ps, 1, Len(ps) - 1) ELSE ps)

\* str.replace(pat, rep), pat non-empty: every non-overlapping occurrence
RECURSIVE ReplaceAll(_, _, _)
ReplaceAll(s, pat, rep) ==
    IF Len(s) < Len(pat) \/ pat = <<>> THEN s
    ELSE IF SubSeq(s, 1, Len(pat)) = pat
         THEN rep \o ReplaceAll(SubSeq(s, Len(pat) + 1, Len(s)), pat, rep)
         ELSE <<s[1]>> \o ReplaceAll(Tail(s), pat, rep)

\* [f(x) for x in seq if keep(x)] building blocks
RECURSIVE StripAll(_)
StripAll(parts) ==
    IF parts = <<>> THEN <<>>
    ELSE Let(Strip(parts[1]), LAMBDA t :
             (IF t = <<>> THEN <<>> ELSE <<t>>) \o StripAll(Tail(parts)))

\* ------------------------------------------------------------------------
\* Constants: the regular expressions, as matchers on symbol sequences
\* ------------------------------------------------------------------------

\* end of the maximal run of symbols of the set In starting at position i
\* (i - 1 when s[i] is not one)
RunIn(s, i, In) ==
    Let({j \in i..Len(s) : s[j] \notin In}, LAMBDA idx :
        IF idx = {} THEN Len(s) ELSE Min(idx) - 1)

\* end of the maximal run of symbols outside the set Out starting at position i
RunNotIn(s, i, Out) ==
    Let({j \in i..Len(s) : s[j] \in Out}, LAMBDA idx :
        IF idx = {} THEN Len(s) ELSE Min(idx) - 1)

\* the operator alternatives ~ = |= ^= $= *= at position i: end of the operator, 0 if none
AttrOpEnd(s, i) ==
    IF i > Len(s) THEN 0
    ELSE IF s[i] \in {"~", "="} THEN i
    ELSE IF s[i] \in {"|", "^", "$", "*"} /\ i + 1 <= Len(s) /\ s[i + 1] = "=" THEN i + 1
    ELSE 0

\* position of the last "]" of the maximal run of non-"[" symbols after k, 0 if none:
\* the greedy [^[]* followed by \]
AttrTailEnd(s, k) ==
    Let(RunNotIn(s, k + 1, {"["}), LAMBDA r :
        Let({j \in (k + 1)..r : s[j] = "]"}, LAMBDA idx :
        IF idx = {} THEN 0 ELSE Max(idx)))

\* ATTRIBUTE_PATTERN matched at position i: the end of the match, 0 if it does not match.
\* The alternatives are tried in the order the regular expression tries them.
AttrMatchEnd(s, i) ==
    IF ~(i + 1 <= Len(s) /\ s[i] = "[" /\ s[i + 1] \in Words) THEN 0
    ELSE Let(RunIn(s, i + 1, Words), LAMBDA w :
             Let(AttrOpEnd(s, w + 1), LAMBDA o :
             Let( IF o # 0 /\ o + 1 <= Len(s) /\ s[o + 1] = "\""
                  THEN Let(RunNotIn(s, o + 2, {"\""}), LAMBDA e :
                           IF e + 1 <= Len(s) THEN e + 1 ELSE 0)
                  ELSE 0, LAMBDA q :
             Let(IF o # 0 THEN RunNotIn(s, o + 1, Whitespace \cup {"\"", "]"}) ELSE 0, LAMBDA u :
             Let(     (IF q # 0 THEN <<q>> ELSE <<>>)
                      \o (IF o # 0 THEN <<u>> ELSE <<>>) \o <<w>>, LAMBDA cands :
             Let({n \in 1..Len(cands) : AttrTailEnd(s, cands[n]) # 0}, LAMBDA hits :
             IF hits = {} THEN 0 ELSE AttrTailEnd(s, cands[Min(hits)])))))))

\* SelectorUtils.extract_attributes: COMPILED_ATTRIBUTE_PATTERN.findall
RECURSIVE ExtractFrom(_, _)
ExtractFrom(s, i) ==
    IF i > Len(s) THEN <<>>
    ELSE Let(AttrMatchEnd(s, i), LAMBDA e :
             IF e = 0 THEN ExtractFrom(s, i + 1)
             ELSE <<SubSeq(s, i, e)>> \o ExtractFrom(s, e + 1))

extract_attributes(selector) == ExtractFrom(selector, 1)

\* COMPILED_ATTRIBUTE_PATTERN.sub("", s)
RECURSIVE RemoveAttributes(_)
RemoveAttributes(s) ==
    IF s = <<>> THEN <<>>
    ELSE Let(AttrMatchEnd(s, 1), LAMBDA e :
             IF e = 0 THEN <<s[1]>> \o RemoveAttributes(Tail(s))
             ELSE RemoveAttributes(SubSeq(s, e + 1, Len(s))))

\* re.sub(r"\s*>\s*", " > ", s)
RECURSIVE SubCombinator(_)
SubCombinator(s) ==
    IF s = <<>> THEN <<>>
    ELSE Let(RunIn(s, 1, Whitespace), LAMBDA r :
             IF r + 1 <= Len(s) /\ s[r + 1] = ">"
             THEN <<SP, ">", SP>>
                  \o SubCombinator(SubSeq(s, RunIn(s, r + 2, Whitespace) + 1, Len(s)))
             ELSE <<s[1]>> \o SubCombinator(Tail(s)))

\* re.sub(r"\s+", " ", s)
RECURSIVE CollapseSpaces(_)
CollapseSpaces(s) ==
    IF s = <<>> THEN <<>>
    ELSE IF s[1] \in Whitespace
         THEN <<SP>> \o CollapseSpaces(SubSeq(s, RunIn(s, 1, Whitespace) + 1, Len(s)))
         ELSE <<s[1]>> \o CollapseSpaces(Tail(s))

\* COMPLETE_RULE_PATTERN  ^\s*[^/][^{}]*\s*\{[^}]*\}\s*$  as re.match applies it:
\* p is the symbol [^/] takes, q the opening brace, r the closing brace.
\* [^{}]* leaves q no choice but the first brace after p, and [^}]* leaves r no
\* choice but the first closing brace after q.
CompleteRuleAt(s, p) ==
    Let(RunNotIn(s, p + 1, {"{", "}"}) + 1, LAMBDA q :
        Let(RunNotIn(s, q + 1, {"}"}) + 1, LAMBDA r :
        IF /\ RunIn(s, 1, Whitespace) >= p - 1
           /\ s[p] # "/"
           /\ q <= Len(s) /\ s[q] = "{"
           /\ r <= Len(s)
           /\ RunIn(s, r + 1, Whitespace) = Len(s)
        THEN <<p, q, r>> ELSE <<>>))

CompleteRuleMatches(s) ==
    {CompleteRuleAt(s, p) : p \in 1..Len(s)} \ {<<>>}

\* SelectorUtils.is_complete_rule
is_complete_rule(line) == CompleteRuleMatches(line) # {}

\* the two groups of ^\s*([^/][^{}]*)\s*\{([^}]*)\}\s*$ : the leading \s* is greedy,
\* so the match with the largest p is the one the engine returns
CompleteRuleGroups(line) ==
    Let(CompleteRuleMatches(line), LAMBDA ms :
        Let(CHOOSE x \in ms : \A y \in ms : y[1] <= x[1], LAMBDA m :
        [selector |-> SubSeq(line, m[1], m[2] - 1),
         properties |-> SubSeq(line, m[2] + 1, m[3] - 1)]))

\* ^[a-zA-Z][a-zA-Z0-9-]*$
IsValidPropertyName(name) ==
    /\ name # <<>>
    /\ name[1] \in AlphaWords
    /\ \A i \in 2..Len(name) : name[i] \in AlphaWords \cup DigitWords \cup {"-"}

\* VARIABLE_PATTERN  var\((--[\w-]+)\)  matched at position i: end of the match, 0 if none
VarMatchEnd(s, i) ==
    IF ~(i + 4 <= Len(s) /\ SubSeq(s, i, i + 3) = <<"var", "(", "-", "-">>) THEN 0
    ELSE Let(RunIn(s, i + 4, Words \cup {"-"}), LAMBDA e :
             IF e >= i + 4 /\ e + 1 <= Len(s) /\ s[e + 1] = ")" THEN e + 1 ELSE 0)

\* group 1 of a match of VARIABLE_PATTERN at i ending at e
VarName(s, i, e) == SubSeq(s, i + 2, e - 1)

\* ------------------------------------------------------------------------
\* Core data structures
\* ------------------------------------------------------------------------

\* QSSProperty.__init__
QSSProperty(name, value) == [name |-> Strip(name), value |-> Strip(value)]

\* QSSRule.__init__ (the fields parse, merge and rendering read)
QSSRule(selector, original) ==
    [selector |-> Strip(selector), properties |-> <<>>, original |-> original]

\* QSSRule.add_property
add_property(rule, name, value) ==
    [rule EXCEPT !.properties = Append(@, QSSProperty(name, value))]

\* "    {name}: {value};" for each property, of QSSFormatter.format_rule
RECURSIVE PropertyLines(_)
PropertyLines(properties) ==
    IF properties = <<>> THEN <<>>
    ELSE <<<<SP, SP, SP, SP>> \o properties[1].name \o <<":", SP>>
           \o properties[1].value \o <<";">>>>
         \o PropertyLines(Tail(properties))

\* QSSFormatter.format_rule
format_rule(selector, properties) ==
    selector \o <<SP, "{", NL>> \o Join(PropertyLines(properties), <<NL>>)
    \o <<NL, "}", NL>>

\* s.split(pat)[0] for the two-character separator "::"
BeforeFirst(s, pat) ==
    Let({i \in 1..(Len(s) - Len(pat) + 1) : SubSeq(s, i, i + Len(pat) - 1) = pat}, LAMBDA idx :
        IF idx = {} THEN s ELSE SubSeq(s, 1, Min(idx) - 1))

\* QSSRule.clone_without_pseudo_elements
clone_without_pseudo_elements(rule) ==
    Let(BeforeFirst(rule.selector, <<":", ":">>), LAMBDA base_selector :
        [selector |-> Strip(base_selector),
         properties |-> rule.properties,
         original |-> format_rule(base_selector, rule.properties)])

\* ------------------------------------------------------------------------
\* Diagnostics and events
\* ------------------------------------------------------------------------

\* "Error on line {line}: {kind}: {text}" and the messages built like it
Diag(kind, line, text) == [kind |-> kind, line |-> line, text |-> text]

Event(kind, payload) == [kind |-> kind, payload |-> payload]

RECURSIVE ErrorEvents(_)
ErrorEvents(errors) ==
    IF errors = <<>> THEN <<>>
    ELSE <<Event("error_found", errors[1])>> \o ErrorEvents(Tail(errors))

\* ------------------------------------------------------------------------
\* VariableManager
\* ------------------------------------------------------------------------

\* dict[name] = value
DictPut(d, k, v) == [x \in (DOMAIN d) \cup {k} |-> IF x = k THEN v ELSE d[x]]

EmptyDict == [x \in {} |-> <<>>]

\* VariableManager.parse_variables: the loop over block.split(";"), entry i of
\* `lines` and on; acc holds the table, the errors and the variables defined so far
RECURSIVE ParseVariableLines(_, _, _)
ParseVariableLines(lines, i, acc) ==
    IF lines = <<>> THEN acc
    ELSE Let(Strip(lines[1]), LAMBDA line :
             Let(SplitOnce(line, ":"), LAMBDA parts :
             Let(
                 IF line = <<>> THEN acc
                 ELSE IF ~StartsWith(line, <<"-", "-">>)
                 THEN [acc EXCEPT !.errors =
                          Append(@, Diag("Invalid variable name: Must start with '--'", i, line))]
                 ELSE IF Len(parts) # 2 \/ Strip(parts[1]) = <<>> \/ Strip(parts[2]) = <<>>
                 THEN [acc EXCEPT !.errors =
                          Append(@, Diag("Malformed variable declaration", i, line))]
                 ELSE [acc EXCEPT
                          !.variables = DictPut(@, Strip(parts[1]), Strip(parts[2])),
                          !.defined = Append(@, <<Strip(parts[1]), Strip(parts[2])>>)], LAMBDA next :
             ParseVariableLines(Tail(lines), i + 1, next))))

parse_variables(variables, block, start_line) ==
    ParseVariableLines(Split(block, ";"), start_line,
                       [variables |-> variables, errors |-> <<>>, defined |-> <<>>])

\* re.sub(VARIABLE_PATTERN, replace_var, s) of resolve_variable, from position i on,
\* with replace_var inlined: visited is the set of names being expanded
RECURSIVE SubstituteVars(_, _, _, _)
SubstituteVars(s, i, visited, variables) ==
    IF i > Len(s) THEN [out |-> <<>>, errors |-> <<>>]
    ELSE Let(VarMatchEnd(s, i), LAMBDA e :
             IF e = 0
             THEN Let(SubstituteVars(s, i + 1, visited, variables), LAMBDA rest :
                      [out |-> <<s[i]>> \o rest.out, errors |-> rest.errors])
             ELSE Let(VarName(s, i, e), LAMBDA var_name :
                      Let(
                          IF var_name \in visited
                          THEN [out |-> SubSeq(s, i, e),
                                errors |-> <<Diag("Circular variable reference detected",
                                                  0, var_name)>>]
                          ELSE IF var_name \notin DOMAIN variables
                          THEN [out |-> SubSeq(s, i, e), errors |-> <<>>]
                          ELSE SubstituteVars(variables[var_name], 1,
                                              visited \cup {var_name}, variables), LAMBDA here :
                      Let(SubstituteVars(s, e + 1, visited, variables), LAMBDA rest :
                      [out |-> here.out \o rest.out,
                       errors |-> here.errors \o rest.errors]))))

\* the names re.finditer(VARIABLE_PATTERN, value) yields, from position i on
RECURSIVE VarNamesIn(_, _)
VarNamesIn(s, i) ==
    IF i > Len(s) THEN <<>>
    ELSE Let(VarMatchEnd(s, i), LAMBDA e :
             IF e = 0 THEN VarNamesIn(s, i + 1)
             ELSE <<VarName(s, i, e)>> \o VarNamesIn(s, e + 1))

\* a resolve_variable that reports undefined names only
ResolveReportingUndefinedOnly(variables, value) ==
    [value |-> SubstituteVars(value, 1, {}, variables).out,
     error |-> IF SelectSeq(VarNamesIn(value, 1), LAMBDA n : n \notin DOMAIN variables) # <<>>
               THEN Diag("Undefined variables", 0,
                         Join(SelectSeq(VarNamesIn(value, 1),
                                        LAMBDA n : n \notin DOMAIN variables), <<",", SP>>))
               ELSE NoError]

\* a resolve_variable that leaves every reference as it is written
ResolveNothing(variables, value) == [value |-> value, error |-> NoError]

\* VariableManager.resolve_variable: (resolved value, error or None)
resolve_variable(variables, value) ==
    Let(SubstituteVars(value, 1, {}, variables), LAMBDA sub :
        Let(              SelectSeq(VarNamesIn(value, 1),
                                    LAMBDA n : n \notin DOMAIN variables), LAMBDA undefined_vars :
        [value |-> sub.out,
         error |-> IF sub.errors # <<>> THEN sub.errors[1]
                   ELSE IF undefined_vars # <<>>
                   THEN Diag("Undefined variables", 0, Join(undefined_vars, <<",", SP>>))
                   ELSE NoError]))

\* resolve_variable step by step: re.sub calls replace_var at every match, and
\* replace_var calls re.sub on the value of the variable.  A frame is one re.sub in
\* progress: its text, the position it has reached, what it has put out, and the
\* variable whose value the text is (<<>> for the value passed to resolve_variable)
NewFrame(text, name) == [text |-> text, pos |-> 1, out |-> <<>>, name |-> name]

\* the position of the next match of VARIABLE_PATTERN at i or after, 0 if none
NextVar(s, i) ==
    IF \E j \in i..Len(s) : VarMatchEnd(s, j) # 0
    THEN Min({j \in i..Len(s) : VarMatchEnd(s, j) # 0})
    ELSE 0

\* the innermost re.sub has no further match: it returns.  The outermost one gives
\* resolved_value; an inner one gives nested_value to its replace_var, which
\* removes the name from visited and returns it
ExpandFinish(e, top, value) ==
    IF Len(e.stack) = 1
    THEN [e EXCEPT !.stack = <<>>, !.result = value, !.done = TRUE]
    ELSE [e EXCEPT !.stack = [SubSeq(e.stack, 1, Len(e.stack) - 1)
                                 EXCEPT ![Len(e.stack) - 1].out = @ \o value],
                   !.visited = @ \ {top.name}]

\* replace_var on the match at j..m of the innermost re.sub; `expanding` is the set
\* the name is looked up in before it is expanded
ExpandMatch(e, variables, expanding, top, j, m) ==
    IF VarName(top.text, j, m) \in expanding
    THEN [e EXCEPT !.stack[Len(e.stack)].out = @ \o SubSeq(top.text, top.pos, m),
                   !.stack[Len(e.stack)].pos = m + 1,
                   !.errors = Append(@, Diag("Circular variable reference detected", 0,
                                             VarName(top.text, j, m)))]
    ELSE IF VarName(top.text, j, m) \notin DOMAIN variables
    THEN [e EXCEPT !.stack[Len(e.stack)].out = @ \o SubSeq(top.text, top.pos, m),
                   !.stack[Len(e.stack)].pos = m + 1]
    ELSE [e EXCEPT !.stack =
                      Append([e.stack EXCEPT
                                 ![Len(e.stack)].out = @ \o SubSeq(top.text, top.pos, j - 1),
                                 ![Len(e.stack)].pos = m + 1],
                             NewFrame(variables[VarName(top.text, j, m)],
                                      VarName(top.text, j, m))),
                   !.visited = @ \cup {VarName(top.text, j, m)}]

\* one step of the innermost re.sub
ExpandGuarded(e, variables, expanding) ==
    Let(e.stack[Len(e.stack)], LAMBDA top :
        Let(NextVar(top.text, top.pos), LAMBDA j :
            IF j = 0
            THEN ExpandFinish(e, top, top.out \o SubSeq(top.text, top.pos, Len(top.text)))
            ELSE ExpandMatch(e, variables, expanding, top, j, VarMatchEnd(top.text, j))))

\* a variant of the step in which replace_var does not look the name up in visited
ExpandUnguarded(e, variables) == ExpandGuarded(e, variables, {})

\* VariableManager.resolve_variable, one step of its re.sub / replace_var recursion
ExpandNext(e, variables) == ExpandGuarded(e, variables, e.visited)

\* ------------------------------------------------------------------------
\* DefaultPropertyProcessor
\* ------------------------------------------------------------------------

\* the loop `for rule in rules` of process_property
RECURSIVE AddToRules(_, _, _)
AddToRules(rules, name, value) ==
    IF rules = <<>> THEN <<>>
    ELSE <<add_property(
              [rules[1] EXCEPT !.original =
                  @ \o <<SP, SP, SP, SP>> \o name \o <<":", SP>> \o value \o <<";", NL>>],
              name, value)>>
         \o AddToRules(Tail(rules), name, value)

\* DefaultPropertyProcessor.process_property: the rules with the property added and
\* the errors dispatched (the logger warnings of the early returns dispatch nothing)
process_property(line0, rules, variables, line_num) ==
    Let(Strip(line0), LAMBDA line :
        Let(SplitOnce(line, ":"), LAMBDA parts :
        Let(Strip(parts[1]), LAMBDA name :
        Let(Strip(RStripChar(Strip(parts[2]), ";")), LAMBDA value :
        Let(resolve_variable(variables, value), LAMBDA res :
        IF rules = <<>> \/ line = <<>> THEN [rules |-> rules, errors |-> <<>>]
        ELSE IF Len(parts) # 2 THEN [rules |-> rules, errors |-> <<>>]
        ELSE IF name = <<>> \/ value = <<>> THEN [rules |-> rules, errors |-> <<>>]
        ELSE IF ~IsValidPropertyName(name) THEN [rules |-> rules, errors |-> <<>>]
        ELSE [rules |-> AddToRules(rules, name, res.value),
              errors |-> IF res.error = NoError THEN <<>>
                         ELSE <<[res.error EXCEPT !.line = line_num]>>])))))

\* ------------------------------------------------------------------------
\* ParserState and the parser object
\* ------------------------------------------------------------------------

\* ParserState.__init__ / ParserState.reset: property_lines is no field of either
\* (SelectorPlugin creates it on the state when a block opens), so reset keeps it
NewParserState ==
    [rules |-> <<>>, buffer |-> <<>>, in_comment |-> FALSE, in_rule |-> FALSE,
     in_variables |-> FALSE, current_selectors |-> <<>>, original_selector |-> None,
     current_rules |-> <<>>, variable_buffer |-> <<>>, current_line |-> 1,
     property_lines |-> <<>>]

\* a reset that leaves the comment flag as it finds it: what C8 rules out
ResetKeepingComment(st) ==
    [NewParserState EXCEPT !.property_lines = st.property_lines,
                           !.in_comment = st.in_comment]

ParserState_reset(st) ==
    [NewParserState EXCEPT !.property_lines = st.property_lines]

\* QSSParser.__init__: a parser is its ParserState, its rule map (selector -> the
\* position in state.rules of the rule object it refers to), its variable table and
\* the events it has handed to its handlers
NewParser ==
    [state |-> NewParserState, rule_map |-> EmptyDict, variables |-> EmptyDict,
     events |-> <<>>]

\* QSSParser.dispatch_error
dispatch_error(p, error) == [p EXCEPT !.events = Append(@, Event("error_found", error))]

\* dict(p.name -> p) filled in list order, then the incoming properties put on top:
\* a name keeps the slot of its first insertion and takes the last value
RECURSIVE PutAll(_, _)
PutAll(acc, properties) ==
    IF properties = <<>> THEN acc
    ELSE Let(properties[1], LAMBDA prop :
             Let({i \in 1..Len(acc) : acc[i].name = prop.name}, LAMBDA idx :
             PutAll(IF idx = {} THEN Append(acc, prop)
                    ELSE [acc EXCEPT ![Min(idx)] = prop],
                    Tail(properties))))

\* a merge that moves every property the incoming block names behind the others
MergeAppending(existing, incoming) ==
    SelectSeq(existing, LAMBDA q : \A j \in 1..Len(incoming) : incoming[j].name # q.name)
    \o PutAll(<<>>, incoming)

\* a merge that puts the properties new to the rule in front of the others
MergeNewFirst(existing, incoming) ==
    SelectSeq(PutAll(<<>>, incoming),
              LAMBDA q : \A i \in 1..Len(existing) : existing[i].name # q.name)
    \o SelectSeq(PutAll(PutAll(<<>>, existing), incoming),
                 LAMBDA q : \E i \in 1..Len(existing) : existing[i].name = q.name)

MergeProperties(existing, incoming) == PutAll(PutAll(<<>>, existing), incoming)

\* a rule store that never merges: what C1 rules out
StoreAlways(p, rule) ==
    [p EXCEPT
        !.rule_map = DictPut(@, rule.selector, Len(p.state.rules) + 1),
        !.state.rules = Append(@, rule),
        !.events = Append(@, Event("rule_added", rule.selector))]

\* a rule store that moves a rule it merges into to the end of the list
StoreMergedLast(p, rule) ==
    IF rule.selector \in DOMAIN p.rule_map
    THEN Let(p.rule_map[rule.selector], LAMBDA k :
             Let(MergeProperties(p.state.rules[k].properties, rule.properties), LAMBDA merged :
             [p EXCEPT
                 !.state.rules =
                     [i \in 1..Len(p.state.rules) |->
                         IF i < k THEN p.state.rules[i]
                         ELSE IF i < Len(p.state.rules) THEN p.state.rules[i + 1]
                         ELSE [selector |-> rule.selector,
                               original |-> format_rule(rule.selector, merged),
                               properties |-> merged]],
                 !.rule_map =
                     [sel \in DOMAIN p.rule_map |->
                         IF p.rule_map[sel] < k THEN p.rule_map[sel]
                         ELSE IF p.rule_map[sel] > k THEN p.rule_map[sel] - 1
                         ELSE Len(p.state.rules)],
                 !.events = Append(@, Event("rule_added", rule.selector))]))
    ELSE [p EXCEPT
             !.rule_map = DictPut(@, rule.selector, Len(p.state.rules) + 1),
             !.state.rules = Append(@, rule),
             !.events = Append(@, Event("rule_added", rule.selector))]

\* the two halves of QSSParser.handle_rule share this: merge `rule` into the stored
\* rule of its selector, or store it
StoreOrMerge(p, rule) ==
    IF rule.selector \in DOMAIN p.rule_map
    THEN Let(p.rule_map[rule.selector], LAMBDA k :
             Let(MergeProperties(p.state.rules[k].properties, rule.properties), LAMBDA merged :
             [p EXCEPT
                 !.state.rules[k].properties = merged,
                 !.state.rules[k].original = format_rule(p.state.rules[k].selector, merged),
                 !.events = Append(@, Event("rule_added", rule.selector))]))
    ELSE [p EXCEPT
             !.rule_map = DictPut(@, rule.selector, Len(p.state.rules) + 1),
             !.state.rules = Append(@, rule),
             !.events = Append(@, Event("rule_added", rule.selector))]

\* QSSParser.handle_rule
handle_rule(p, rule) ==
    Let(StoreOrMerge(p, rule), LAMBDA p1 :
        IF /\ Contains(rule.selector, <<":">>)
           /\ ~Contains(rule.selector, <<":", ":">>)
           /\ ~Contains(rule.selector, <<",">>)
        THEN StoreOrMerge(p1, clone_without_pseudo_elements(rule))
        ELSE p1)

\* ------------------------------------------------------------------------
\* Plugins: each process_line returns whether it handled the line, and the parser after
\* ------------------------------------------------------------------------

Handled(p) == [handled |-> TRUE, p |-> p]
NotHandled(p) == [handled |-> FALSE, p |-> p]

RECURSIVE DefinedEvents(_)
DefinedEvents(defined) ==
    IF defined = <<>> THEN <<>>
    ELSE <<Event("variable_defined", defined[1])>> \o DefinedEvents(Tail(defined))

\* VariablePlugin.process_line
VariablePlugin_process_line(line0, p) ==
    Let(Strip(line0), LAMBDA line :
        Let(p.state, LAMBDA st :
        IF st.in_comment
        THEN IF Contains(line, <<"*", "/">>)
             THEN Handled([p EXCEPT !.state.in_comment = FALSE])
             ELSE Handled(p)
        ELSE IF StartsWith(line, <<"/", "*">>)
        THEN Handled([p EXCEPT !.state.in_comment = TRUE])
        ELSE IF line = <<"@", "variables", SP, "{">> /\ ~st.in_rule
        THEN Handled([p EXCEPT !.state.in_variables = TRUE,
                               !.state.variable_buffer = <<>>])
        ELSE IF st.in_variables
        THEN IF line = <<"}">>
             THEN Let(parse_variables(p.variables, st.variable_buffer, st.current_line), LAMBDA r :
                      Handled([p EXCEPT
                          !.variables = r.variables,
                          !.events = @ \o DefinedEvents(r.defined) \o ErrorEvents(r.errors),
                          !.state.in_variables = FALSE,
                          !.state.variable_buffer = <<>>]))
             ELSE Handled([p EXCEPT !.state.variable_buffer =
                                        Strip(@ \o <<SP>> \o line)])
        ELSE NotHandled(p)))

\* SelectorUtils.normalize_selector, one branch: attribute clauses are set aside as
\* placeholders, blanks and ">" are normalised, the clauses are put back
RECURSIVE ToPlaceholders(_, _, _)
ToPlaceholders(sel, attributes, i) ==
    IF i > Len(attributes) \/ i > Len(PlaceholderWords) THEN sel
    ELSE ToPlaceholders(ReplaceAll(sel, attributes[i], <<PlaceholderWords[i]>>),
                        attributes, i + 1)

RECURSIVE FromPlaceholders(_, _, _)
FromPlaceholders(sel, attributes, i) ==
    IF i > Len(attributes) \/ i > Len(PlaceholderWords) THEN sel
    ELSE FromPlaceholders(ReplaceAll(sel, <<PlaceholderWords[i]>>, attributes[i]),
                          attributes, i + 1)

NormalizeBranch(sel) ==
    Let(extract_attributes(sel), LAMBDA attributes :
        Let(ToPlaceholders(sel, attributes, 1), LAMBDA temp_sel :
        FromPlaceholders(Strip(CollapseSpaces(SubCombinator(temp_sel))), attributes, 1)))

RECURSIVE NormalizeBranches(_)
NormalizeBranches(selectors) ==
    IF selectors = <<>> THEN <<>>
    ELSE <<NormalizeBranch(selectors[1])>> \o NormalizeBranches(Tail(selectors))

\* SelectorUtils.normalize_selector
normalize_selector(selector) ==
    Join(NormalizeBranches(StripAll(Split(selector, ","))), <<",", SP>>)

\* [s.strip() for s in normalize_selector(part).split(",") if s.strip()]
SelectorsOf(selector_part) == StripAll(Split(normalize_selector(selector_part), ","))

\* [QSSRule(sel, original=f"{sel} {{\n") for sel in selectors]
RECURSIVE NewRules(_)
NewRules(selectors) ==
    IF selectors = <<>> THEN <<>>
    ELSE <<QSSRule(selectors[1], selectors[1] \o <<SP, "{", NL>>)>>
         \o NewRules(Tail(selectors))

\* for rule in state.current_rules: rule.original += "}\n"; handle_rule(rule)
RECURSIVE HandleRules(_, _)
HandleRules(p, rules) ==
    IF rules = <<>> THEN p
    ELSE HandleRules(handle_rule(p, [rules[1] EXCEPT !.original = @ \o <<"}", NL>>]),
                     Tail(rules))

\* process_property on state.current_rules, its errors dispatched
ProcessInto(p, line) ==
    Let(     process_property(line, p.state.current_rules, p.variables,
                              p.state.current_line), LAMBDA r :
        [p EXCEPT !.state.current_rules = r.rules,
                  !.events = @ \o ErrorEvents(r.errors)])

\* the loop over state.property_lines[:-1] when a block closes
RECURSIVE ClosePropertyLines(_, _)
ClosePropertyLines(p, prop_lines) ==
    IF prop_lines = <<>> THEN p
    ELSE ClosePropertyLines(
             IF ~EndsWith(Strip(prop_lines[1]), <<";">>)
             THEN dispatch_error(p, Diag("Property missing ';'", p.state.current_line,
                                         prop_lines[1]))
             ELSE ProcessInto(p, prop_lines[1]),
             Tail(prop_lines))

\* a variant of the step on the last of state.property_lines that demands the ';'
\* of that line as the loop demands it of the lines before
CloseLastStrict(p, last_line) ==
    IF Strip(last_line) = <<>> THEN p
    ELSE IF ~EndsWith(Strip(last_line), <<";">>)
    THEN dispatch_error(p, Diag("Property missing ';'", p.state.current_line,
                                Strip(last_line)))
    ELSE ProcessInto(p, Strip(last_line))

\* the last of state.property_lines when a block closes
CloseLastProperty(p, last_line) ==
    Let(Strip(last_line), LAMBDA last_prop :
        Let(SplitOnce(last_prop, ":"), LAMBDA parts :
        IF last_prop = <<>> THEN p
        ELSE IF Len(parts) # 2 \/ Strip(parts[1]) = <<>> \/ Strip(parts[2]) = <<>>
        THEN dispatch_error(p, Diag("Invalid last property", p.state.current_line, last_prop))
        ELSE ProcessInto(p, last_prop \o <<";">>)))

\* the loop over properties.split(";") of _process_complete_rule
RECURSIVE CompleteRuleProperties(_, _)
CompleteRuleProperties(p, prop_parts) ==
    IF prop_parts = <<>> THEN p
    ELSE CompleteRuleProperties(
             IF Strip(prop_parts[1]) = <<>> THEN p
             ELSE ProcessInto(p, Strip(prop_parts[1]) \o <<";">>),
             Tail(prop_parts))

\* SelectorPlugin._process_complete_rule (the line is known to match the pattern)
process_complete_rule(line, p) ==
    Let(CompleteRuleGroups(line), LAMBDA g :
        Let(normalize_selector(Strip(g.selector)), LAMBDA normalized_selector :
        Let(StripAll(Split(normalized_selector, ",")), LAMBDA selectors :
        Let(  [p EXCEPT !.state.current_selectors = selectors,
                        !.state.original_selector = normalized_selector,
                        !.state.current_rules = NewRules(selectors)], LAMBDA p1 :
        Let(  IF Strip(g.properties) = <<>> THEN p1
              ELSE CompleteRuleProperties(p1, Split(g.properties, ";")), LAMBDA p2 :
        Let(HandleRules(p2, p2.state.current_rules), LAMBDA p3 :
        IF selectors = <<>> THEN p
        ELSE [p3 EXCEPT !.state.current_rules = <<>>,
                        !.state.current_selectors = <<>>,
                        !.state.original_selector = None]))))))

\* SelectorPlugin.process_line
SelectorPlugin_process_line(line0, p) ==
    Let(Strip(line0), LAMBDA line :
        Let(p.state, LAMBDA st :
        Let(Strip(SubSeq(line, 1, Len(line) - 1)), LAMBDA selector_part :
        Let(        IF selector_part = <<>> THEN st.current_selectors
                    ELSE st.current_selectors \o SelectorsOf(selector_part), LAMBDA extended :
        IF line = <<>> \/ st.in_comment \/ st.in_variables THEN NotHandled(p)
        ELSE IF is_complete_rule(line) THEN Handled(process_complete_rule(line, p))
        ELSE IF EndsWith(line, <<",">>)
        THEN Handled([p EXCEPT !.state.current_selectors = extended])
        ELSE IF EndsWith(line, <<"{">>) /\ ~st.in_rule
        THEN IF extended = <<>>
             THEN Handled([p EXCEPT !.state.buffer = <<>>])
             ELSE Handled([p EXCEPT
                     !.state.buffer = <<>>,
                     !.state.original_selector = Join(extended, <<",", SP>>),
                     !.state.current_rules = NewRules(extended),
                     !.state.in_rule = TRUE,
                     !.state.current_selectors = <<>>,
                     !.state.property_lines = <<>>])
        ELSE IF line = <<"}">> /\ st.in_rule
        THEN Let(Len(st.property_lines), LAMBDA n :
                 Let(  IF n = 0 THEN p
                       ELSE CloseLastProperty(
                                ClosePropertyLines(p, SubSeq(st.property_lines, 1, n - 1)),
                                st.property_lines[n]), LAMBDA p1 :
                 Let(HandleRules(p1, p1.state.current_rules), LAMBDA p2 :
                 Handled([p2 EXCEPT
                     !.state.current_rules = <<>>,
                     !.state.in_rule = FALSE,
                     !.state.current_selectors = <<>>,
                     !.state.original_selector = None,
                     !.state.property_lines = <<>>]))))
        ELSE NotHandled(p)))))

\* PropertyPlugin.process_line
PropertyPlugin_process_line(line0, p) ==
    Let(Strip(line0), LAMBDA line :
        Let(p.state, LAMBDA st :
        IF ~st.in_rule \/ st.in_comment \/ st.in_variables THEN NotHandled(p)
        ELSE Handled([p EXCEPT !.state.property_lines = Append(@, line)])))

\* QSSParser._process_line: the plugins in order, the first that handles the line wins
process_line(line, p) ==
    Let(VariablePlugin_process_line(line, p), LAMBDA v :
        Let(SelectorPlugin_process_line(line, v.p), LAMBDA sel :
        Let(PropertyPlugin_process_line(line, sel.p), LAMBDA prop :
        IF v.handled THEN v.p ELSE IF sel.handled THEN sel.p ELSE prop.p)))

\* ------------------------------------------------------------------------
\* QSSParser.parse, as steps: _reset, one loop iteration per line, the code after the loop
\* ------------------------------------------------------------------------

\* QSSParser._reset (the event log is the observers', who start a new one per call)
reset(p) ==
    [state |-> ParserState_reset(p.state), rule_map |-> EmptyDict,
     variables |-> EmptyDict, events |-> <<>>]

\* one iteration of `for line in lines` of parse
parse_line(line, p) ==
    Let(process_line(line, p), LAMBDA p1 :
        [p1 EXCEPT !.state.current_line = @ + 1])

\* an end of parse that announces completion ahead of the events of the call
ParseEndCompletedFirst(p) ==
    [p EXCEPT !.events = <<Event("parse_completed", <<>>)>> \o @]

\* parse, after the loop: the pending buffers, the rule left open, parse_completed
parse_end(p) ==
    Let(p.state, LAMBDA st :
        Let(IF Strip(st.buffer) # <<>> THEN ProcessInto(p, st.buffer) ELSE p, LAMBDA p1 :
        Let(parse_variables(p1.variables, p1.state.variable_buffer, p1.state.current_line), LAMBDA r :
        Let(  IF Strip(p1.state.variable_buffer) # <<>>
              THEN [p1 EXCEPT !.variables = r.variables,
                              !.events = @ \o ErrorEvents(r.errors)]
              ELSE p1, LAMBDA p2 :
        Let(               p2.state.original_selector \o <<SP, "{", NL>>
                           \o Strip(p2.state.buffer) \o <<NL>>, LAMBDA invalid_content :
        Let(  IF p2.state.in_rule /\ p2.state.current_rules # <<>>
              THEN [p2 EXCEPT
                      !.events = Append(@, Event("invalid_rule_skipped", invalid_content)),
                      !.state.current_rules = <<>>,
                      !.state.in_rule = FALSE,
                      !.state.current_selectors = <<>>,
                      !.state.original_selector = None]
              ELSE p2, LAMBDA p3 :
        [p3 EXCEPT !.events = Append(@, Event("parse_completed", <<>>))]))))))

RECURSIVE ParseLines(_, _)
ParseLines(p, lines) ==
    IF lines = <<>> THEN p ELSE ParseLines(parse_line(lines[1], p), Tail(lines))

\* QSSParser.parse as a function of the parser before the call and the text's lines
parse(p, lines) == parse_end(ParseLines(reset(p), lines))

\* QSSParser.to_string
RECURSIVE FormattedRules(_)
FormattedRules(rules) ==
    IF rules = <<>> THEN <<>>
    ELSE <<format_rule(rules[1].selector, rules[1].properties)>>
         \o FormattedRules(Tail(rules))

to_string(p) == Join(FormattedRules(p.state.rules), <<NL>>)

\* ------------------------------------------------------------------------
\* SelectorUtils.validate_selector_syntax
\* ------------------------------------------------------------------------

\* (\w+|#[-\w]+|\[.*?\]) at position i: the ends the engine tries, in its order
\* (a word run and an id run are greedy; the bracket clause is lazy)
PartEnds(s, i) ==
    IF i > Len(s) THEN <<>>
    ELSE IF s[i] \in Words THEN <<RunIn(s, i, Words)>>
    ELSE IF s[i] = "#"
    THEN Let(RunIn(s, i + 1, Words \cup {"-"}), LAMBDA r :
             IF r >= i + 1 THEN <<r>> ELSE <<>>)
    ELSE IF s[i] = "["
    THEN SelectSeq([j \in 1..(Len(s) - i) |-> i + j], LAMBDA e : s[e] = "]")
    ELSE <<>>

\* (:{n})\s*(\w+) at position c, for n colons: the match, or <<>>
PseudoColons(s, c, n) ==
    Let(RunIn(s, c + n, Whitespace) + 1, LAMBDA w :
        IF /\ c + n - 1 <= Len(s)
           /\ \A j \in c..(c + n - 1) : s[j] = ":"
           /\ w <= Len(s) /\ s[w] \in Words
        THEN <<[colon |-> SubSeq(s, c, c + n - 1),
                pseudo |-> SubSeq(s, w, RunIn(s, w, Words)),
                end |-> RunIn(s, w, Words)]>>
        ELSE <<>>)

\* \s*(:{1,2})\s*(\w+) after a part that ends at k: the match, or <<>>
PseudoTail(s, k) ==
    Let(RunIn(s, k + 1, Whitespace) + 1, LAMBDA c :
        IF PseudoColons(s, c, 2) # <<>> THEN PseudoColons(s, c, 2)
        ELSE PseudoColons(s, c, 1))

\* PSEUDO_PATTERN matched at position i: the match, or <<>>
PseudoMatchAt(s, i) ==
    Let(PartEnds(s, i), LAMBDA ends :
        Let({n \in 1..Len(ends) : PseudoTail(s, ends[n]) # <<>>}, LAMBDA hits :
        IF hits = {} THEN <<>>
        ELSE Let(ends[Min(hits)], LAMBDA k :
                 Let(PseudoTail(s, k)[1], LAMBDA t :
                 <<[prefix |-> SubSeq(s, i, k), colon |-> t.colon, pseudo |-> t.pseudo,
                    full |-> SubSeq(s, i, t.end), end |-> t.end]>>))))

\* re.finditer(PSEUDO_PATTERN, s), from position i on
RECURSIVE PseudoMatches(_, _)
PseudoMatches(s, i) ==
    IF i > Len(s) THEN <<>>
    ELSE Let(PseudoMatchAt(s, i), LAMBDA m :
             IF m = <<>> THEN PseudoMatches(s, i + 1)
             ELSE m \o PseudoMatches(s, m[1].end + 1))

\* COMBINATOR_PATTERN matched at position i: the match, or <<>>
CombinatorOfLength(s, k, n) ==
    IF /\ k + n <= Len(s)
       /\ \A j \in (k + 1)..(k + n) : s[j] \in {">", SP}
       /\ PartEnds(s, k + n + 1) # <<>>
    THEN <<[combinator |-> SubSeq(s, k + 1, k + n),
            right |-> SubSeq(s, k + n + 1, PartEnds(s, k + n + 1)[1]),
            end |-> PartEnds(s, k + n + 1)[1]]>>
    ELSE <<>>

\* ([> ]{1,2})(part) after a part that ends at k: the match, or <<>>
CombinatorTail(s, k) ==
    IF CombinatorOfLength(s, k, 2) # <<>> THEN CombinatorOfLength(s, k, 2)
    ELSE CombinatorOfLength(s, k, 1)

CombinatorMatchAt(s, i) ==
    Let(PartEnds(s, i), LAMBDA ends :
        Let({n \in 1..Len(ends) : CombinatorTail(s, ends[n]) # <<>>}, LAMBDA hits :
        IF hits = {} THEN <<>>
        ELSE Let(ends[Min(hits)], LAMBDA k :
                 Let(CombinatorTail(s, k)[1], LAMBDA t :
                 <<[left |-> SubSeq(s, i, k), combinator |-> t.combinator,
                    right |-> t.right, end |-> t.end]>>))))

\* re.finditer(COMBINATOR_PATTERN, s), from position i on
RECURSIVE CombinatorMatches(_, _)
CombinatorMatches(s, i) ==
    IF i > Len(s) THEN <<>>
    ELSE Let(CombinatorMatchAt(s, i), LAMBDA m :
             IF m = <<>> THEN CombinatorMatches(s, i + 1)
             ELSE m \o CombinatorMatches(s, m[1].end + 1))

\* re.split(r"\s+", s)
RECURSIVE SplitWhitespace(_)
SplitWhitespace(s) ==
    Let({i \in 1..Len(s) : s[i] \in Whitespace}, LAMBDA idx :
        IF idx = {} THEN <<s>>
        ELSE <<SubSeq(s, 1, Min(idx) - 1)>>
             \o SplitWhitespace(SubSeq(s, RunIn(s, Min(idx), Whitespace) + 1, Len(s))))

\* re.match(CLASS_ID_PATTERN, part)
ClassIdMatches(part) ==
    Let(RunIn(part, 1, Words), LAMBDA w :
        /\ w >= 1 /\ w + 2 <= Len(part)
        /\ part[w + 1] = "#" /\ part[w + 2] \in Words \cup {"-"})

\* re.match(r"\[\w+(?:~|=|\|=|\^=|\$=|\*=)\]", attr)
EmptyOperatorAttribute(attr) ==
    Let(RunIn(attr, 2, Words), LAMBDA w :
        Let(AttrOpEnd(attr, w + 1), LAMBDA o :
        /\ attr # <<>> /\ attr[1] = "[" /\ w >= 2
        /\ o # 0 /\ o + 1 <= Len(attr) /\ attr[o + 1] = "]"))

\* the duplicate check of a comma-group: one error per repeated occurrence
\* a duplicate check that reports nothing
NoDuplicateErrors(selectors, seen, line_num) == <<>>

RECURSIVE DuplicateErrors(_, _, _)
DuplicateErrors(selectors, seen, line_num) ==
    IF selectors = <<>> THEN <<>>
    ELSE (IF selectors[1] \in seen
          THEN <<Diag("Duplicate selector in comma-separated list", line_num, selectors[1])>>
          ELSE <<>>)
         \o DuplicateErrors(Tail(selectors), seen \cup {selectors[1]}, line_num)

MapDiag(items, kind, line_num, Text(_)) ==
    [n \in 1..Len(items) |-> Diag(kind, line_num, Text(items[n]))]

\* the checks of one branch: attributes, pseudo spacing, class#id, combinators
BranchErrors(sel, line_num) ==
    Let(SelectSeq(extract_attributes(sel), EmptyOperatorAttribute), LAMBDA bad_attrs :
        Let(          SelectSeq(PseudoMatches(sel, 1),
                          LAMBDA m : \E j \in 1..(Len(m.full) - 1) :
                                        m.full[j] \in Whitespace /\ m.full[j + 1] = ":"), LAMBDA bad_pseudo :
        Let(SelectSeq(SplitWhitespace(sel), ClassIdMatches), LAMBDA bad_parts :
        Let(        SelectSeq(CombinatorMatches(sel, 1),
                        LAMBDA m : m.combinator \notin {<<SP>>, <<">">>}), LAMBDA bad_comb :
        MapDiag(bad_attrs, "Invalid selector: Malformed attribute selector", line_num,
                LAMBDA a : <<sel, a>>)
        \o MapDiag(bad_pseudo, "Invalid spacing in selector", line_num,
                   LAMBDA m : <<sel, m.prefix, m.colon \o m.pseudo>>)
        \o MapDiag(bad_parts, "Invalid selector: Space required between class and ID",
                   line_num, LAMBDA q : <<sel, q>>)
        \o MapDiag(bad_comb, "Invalid combinator in selector", line_num,
                   LAMBDA m : <<sel, m.combinator, m.left, m.right>>)))))

RECURSIVE AllBranchErrors(_, _)
AllBranchErrors(selectors, line_num) ==
    IF selectors = <<>> THEN <<>>
    ELSE BranchErrors(selectors[1], line_num) \o AllBranchErrors(Tail(selectors), line_num)

\* a variant of validate_selector_syntax that goes on to the checks of the branches
\* after the pseudo-in-comma-group diagnostic
ValidateWithoutStop(selector0, line_num) ==
    Let(Strip(selector0), LAMBDA selector :
        Let(StripAll(Split(selector, ",")), LAMBDA selectors :
            (IF Len(selectors) > 1 THEN DuplicateErrors(selectors, {}, line_num) ELSE <<>>)
            \o (IF /\ Len(selectors) > 1
                   /\ \E n \in 1..Len(selectors) :
                         Contains(selectors[n], <<":">>) /\ ~EndsWith(selectors[n], <<":">>)
                THEN <<Diag("Pseudo-states in comma-separated selectors are not supported",
                            0, selector)>>
                ELSE <<>>)
            \o AllBranchErrors(selectors, line_num)))

\* SelectorUtils.validate_selector_syntax
validate_selector_syntax(selector0, line_num) ==
    Let(Strip(selector0), LAMBDA selector :
        Let(StripAll(Split(selector, ",")), LAMBDA selectors :
        Let(    IF Len(selectors) > 1 THEN DuplicateErrors(selectors, {}, line_num)
                ELSE <<>>, LAMBDA dups :
        Let(
            /\ Len(selectors) > 1
            /\ \E n \in 1..Len(selectors) :
                  Contains(selectors[n], <<":">>) /\ ~EndsWith(selectors[n], <<":">>), LAMBDA pseudo_in_group :
        IF pseudo_in_group
        THEN dups \o <<Diag("Pseudo-states in comma-separated selectors are not supported",
                            0, selector)>>
        ELSE dups \o AllBranchErrors(selectors, line_num)))))

\* ------------------------------------------------------------------------
\* QSSSyntaxChecker
\* ------------------------------------------------------------------------

\* the checks of one ';'-terminated part of a one-line rule body
CompleteRulePartErrors(part0, line_num) ==
    Let(Strip(part0), LAMBDA part :
        IF part = <<>> THEN <<>>
        ELSE IF ~Contains(part, <<":">>) \/ EndsWith(part, <<":">>)
        THEN <<Diag("Malformed property", line_num, part)>>
        ELSE IF Strip(SplitOnce(part, ":")[2]) = <<>>
        THEN <<Diag("Property missing value", line_num, part)>>
        ELSE IF ~IsValidPropertyName(Strip(SplitOnce(part, ":")[1]))
        THEN <<Diag("Invalid property name", line_num, Strip(SplitOnce(part, ":")[1]))>>
        ELSE <<>>)

RECURSIVE CompleteRulePartsErrors(_, _)
CompleteRulePartsErrors(parts, line_num) ==
    IF parts = <<>> THEN <<>>
    ELSE CompleteRulePartErrors(parts[1], line_num)
         \o CompleteRulePartsErrors(Tail(parts), line_num)

\* QSSSyntaxChecker._validate_complete_rule (the line is a complete rule)
validate_complete_rule(line, line_num) ==
    Let(CompleteRuleGroups(line), LAMBDA g :
        Let(Strip(g.selector), LAMBDA selector :
        Let(Split(g.properties, ";"), LAMBDA prop_parts :
        Let(Strip(prop_parts[Len(prop_parts)]), LAMBDA last_part :
        Let(Strip(SplitOnce(last_part, ":")[1]), LAMBDA last_name :
        (IF selector = <<>> THEN <<Diag("Empty selector in rule", line_num, line)>>
         ELSE validate_selector_syntax(selector, line_num))
        \o (IF Strip(g.properties) = <<>> THEN <<>>
            ELSE CompleteRulePartsErrors(SubSeq(prop_parts, 1, Len(prop_parts) - 1), line_num)
                 \o (IF last_part # <<>> /\ ~EndsWith(last_part, <<";">>)
                     THEN <<Diag("Property missing ';'", line_num, last_part)>>
                          \o (IF /\ Contains(last_part, <<":">>)
                                 /\ ~EndsWith(last_part, <<":">>)
                                 /\ ~IsValidPropertyName(last_name)
                              THEN <<Diag("Invalid property name", line_num, last_name)>>
                              ELSE <<>>)
                     ELSE <<>>)))))))

\* QSSSyntaxChecker._handle_comments
handle_comments(line, in_comment) == StartsWith(line, <<"/", "*">>) /\ ~in_comment

\* QSSSyntaxChecker._is_property_line
is_property_line(line) ==
    /\ Contains(line, <<":">>)
    /\ Contains(line, <<";">>)
    /\ ~StartsWith(line, <<"@", "variables">>)

\* QSSSyntaxChecker._is_potential_selector
is_potential_selector(line) ==
    /\ ~is_complete_rule(line)
    /\ ~is_property_line(line)
    /\ ~StartsWith(line, <<"/", "*">>)
    /\ ~StartsWith(line, <<"@", "variables">>)
    /\ ~Contains(line, <<"*", "/">>)
    /\ line # <<"}">>
    /\ ~EndsWith(line, <<",">>)
    /\ Let(RunIn(line, 1, Whitespace) + 1, LAMBDA p :
           \E q \in 1..p :
              /\ q <= Len(line) /\ line[q] # "/"
              /\ \A j \in (q + 1)..Len(line) : line[j] \notin {"{", "}", ";"})

\* QSSSyntaxChecker._validate_selector: the errors and the extracted selector
validate_selector(line, line_num) ==
    Let(Strip(SubSeq(line, 1, Len(line) - 1)), LAMBDA selector :
        [errors |-> IF selector = <<>>
                    THEN <<Diag("Empty selector before '{'", line_num, line)>>
                    ELSE validate_selector_syntax(selector, line_num),
         selector |-> selector])

\* the checks of one ';'-terminated part of a property line inside a block
PropertyPartErrors(part0, line_num) ==
    Let(Strip(part0), LAMBDA part :
        IF part = <<>> THEN <<>>
        ELSE IF ~Contains(part, <<":">>) \/ EndsWith(part, <<":">>)
        THEN <<Diag("Malformed property", line_num, part)>>
        ELSE IF ~IsValidPropertyName(Strip(SplitOnce(part, ":")[1]))
        THEN <<Diag("Invalid property name", line_num, Strip(SplitOnce(part, ":")[1]))>>
        ELSE <<>>)

RECURSIVE PropertyPartsErrors(_, _)
PropertyPartsErrors(parts, line_num) ==
    IF parts = <<>> THEN <<>>
    ELSE PropertyPartErrors(parts[1], line_num) \o PropertyPartsErrors(Tail(parts), line_num)

\* QSSSyntaxChecker._process_property_line: the new buffer and the errors
checker_process_property_line(line, buffer0, line_num) ==
    Let(Contains(line, <<";">>), LAMBDA semi :
        Let(semi /\ Strip(buffer0) # <<>>, LAMBDA flush :
        Let(  IF flush /\ ~EndsWith(buffer0, <<";">>)
              THEN <<Diag("Property missing ';'", line_num - 1, Strip(buffer0))>>
              ELSE <<>>, LAMBDA e1 :
        Let(IF flush THEN <<>> ELSE buffer0, LAMBDA buffer :
        Let(IF buffer # <<>> THEN Strip(buffer \o <<SP>> \o line) ELSE line, LAMBDA full_line :
        Let(Split(full_line, ";"), LAMBDA parts :
        IF semi
        THEN [buffer |-> Strip(parts[Len(parts)]),
              errors |-> e1 \o PropertyPartsErrors(SubSeq(parts, 1, Len(parts) - 1), line_num)]
        ELSE [buffer |-> Strip(buffer \o <<SP>> \o line), errors |-> e1]))))))

\* QSSSyntaxChecker._validate_pending_properties
validate_pending_properties(buffer, line_num) ==
    Let(             IF Contains(buffer, <<":">>)
                     THEN Strip(SplitOnce(buffer, ":")[1]) ELSE Strip(buffer), LAMBDA prop_name :
        IF Strip(buffer) # <<>> /\ ~EndsWith(buffer, <<";">>)
        THEN <<Diag("Property missing ';'", line_num, Strip(buffer))>>
             \o (IF ~IsValidPropertyName(prop_name)
                 THEN <<Diag("Invalid property name", line_num, prop_name)>>
                 ELSE <<>>)
        ELSE <<>>)

\* QSSSyntaxChecker._finalize_validation
finalize_validation(open_braces, current_selector, buffer, last_line_num) ==
    (IF open_braces > 0 /\ current_selector # <<>>
     THEN <<Diag("Unclosed brace '{' for selector", last_line_num, current_selector)>>
     ELSE <<>>)
    \o validate_pending_properties(buffer, last_line_num)

\* QSSSyntaxChecker.__init__: the one field a checker keeps between calls
NewChecker == [selector_buffer |-> <<>>]

\* the locals of check_format at the top of its loop; the checker's own
\* _selector_buffer is carried along as it is, since no statement resets it
check_begin(checker) ==
    [errors |-> <<>>, in_comment |-> FALSE, in_rule |-> FALSE, in_variables |-> FALSE,
     open_braces |-> 0, current_selector |-> <<>>, last_line_num |-> 0,
     property_buffer |-> <<>>, line_num |-> 0,
     selector_buffer |-> checker.selector_buffer]

NestedVariables(line_num, line) == Diag("Nested @variables block", line_num, line)

UnmatchedBrace(line_num, line) ==
    Diag("Closing brace '}' without matching '{'", line_num, line)

\* a variant of the loop body inside a block of a rule in which every '}' leaves
\* the rule, whatever the counter says
CheckInRuleLeaving(line, k) ==
    Let(k.line_num, LAMBDA n :
        Let(validate_pending_properties(k.property_buffer, n - 1), LAMBDA pending :
        Let(validate_selector(line, n), LAMBDA v :
        Let(checker_process_property_line(line, k.property_buffer, n), LAMBDA pp :
        IF line = <<"}">>
        THEN IF k.open_braces = 0
             THEN [k EXCEPT !.errors = Append(@, UnmatchedBrace(n, line))]
             ELSE [k EXCEPT !.errors = @ \o pending,
                            !.property_buffer = <<>>,
                            !.open_braces = @ - 1,
                            !.in_rule = FALSE,
                            !.current_selector = <<>>]
        ELSE IF EndsWith(line, <<"{">>)
        THEN IF StartsWith(line, <<"@", "variables">>)
             THEN [k EXCEPT !.errors = Append(@, NestedVariables(n, line))]
             ELSE [k EXCEPT !.errors = @ \o pending \o v.errors,
                            !.property_buffer = <<>>,
                            !.current_selector = v.selector,
                            !.open_braces = @ + 1,
                            !.in_rule = TRUE,
                            !.last_line_num = n]
        ELSE IF StartsWith(line, <<"@", "variables">>)
        THEN [k EXCEPT !.errors = Append(@, NestedVariables(n, line))]
        ELSE [k EXCEPT !.property_buffer = pp.buffer,
                       !.errors = @ \o pp.errors,
                       !.last_line_num = n]))))

\* the loop body of check_format inside a block of a rule
CheckInRule(line, k) ==
    Let(k.line_num, LAMBDA n :
        Let(validate_pending_properties(k.property_buffer, n - 1), LAMBDA pending :
        Let(validate_selector(line, n), LAMBDA v :
        Let(checker_process_property_line(line, k.property_buffer, n), LAMBDA pp :
        IF line = <<"}">>
        THEN IF k.open_braces = 0
             THEN [k EXCEPT !.errors = Append(@, UnmatchedBrace(n, line))]
             ELSE [k EXCEPT !.errors = @ \o pending,
                            !.property_buffer = <<>>,
                            !.open_braces = @ - 1,
                            !.in_rule = k.open_braces - 1 > 0,
                            !.current_selector =
                                IF k.open_braces - 1 > 0 THEN @ ELSE <<>>]
        ELSE IF EndsWith(line, <<"{">>)
        THEN IF StartsWith(line, <<"@", "variables">>)
             THEN [k EXCEPT !.errors = Append(@, NestedVariables(n, line))]
             ELSE [k EXCEPT !.errors = @ \o pending \o v.errors,
                            !.property_buffer = <<>>,
                            !.current_selector = v.selector,
                            !.open_braces = @ + 1,
                            !.in_rule = TRUE,
                            !.last_line_num = n]
        ELSE IF StartsWith(line, <<"@", "variables">>)
        THEN [k EXCEPT !.errors = Append(@, NestedVariables(n, line))]
        ELSE [k EXCEPT !.property_buffer = pp.buffer,
                       !.errors = @ \o pp.errors,
                       !.last_line_num = n]))))

\* the loop body of check_format outside every block
CheckOutside(line, k) ==
    Let(k.line_num, LAMBDA n :
        Let(validate_selector(line, n), LAMBDA v :
        Let(        IF k.selector_buffer # <<>>
                    THEN Join(Append(k.selector_buffer, v.selector), <<",", SP>>)
                    ELSE v.selector, LAMBDA selector :
        Let(          IF k.selector_buffer # <<>>
                      THEN v.errors \o validate_selector_syntax(selector, n)
                      ELSE v.errors, LAMBDA new_errors :
        Let(Strip(SubSeq(line, 1, Len(line) - 1)), LAMBDA head :
        IF line = <<"@", "variables", SP, "{">>
        THEN [k EXCEPT !.errors = IF k.open_braces > 0
                                  THEN Append(@, NestedVariables(n, line)) ELSE @,
                       !.open_braces = @ + 1,
                       !.in_variables = TRUE,
                       !.last_line_num = n]
        ELSE IF EndsWith(line, <<"{">>)
        THEN [k EXCEPT !.errors = @ \o new_errors,
                       !.current_selector = selector,
                       !.open_braces = @ + 1,
                       !.in_rule = TRUE,
                       !.last_line_num = n,
                       !.selector_buffer = <<>>]
        ELSE IF EndsWith(line, <<",">>)
        THEN [k EXCEPT !.selector_buffer = IF head # <<>> THEN Append(@, head) ELSE @,
                       !.last_line_num = n]
        ELSE IF is_property_line(line)
        THEN [k EXCEPT !.errors = Append(@, Diag("Property outside block", n, line))]
        ELSE IF line = <<"}">>
        THEN [k EXCEPT !.errors = Append(@, UnmatchedBrace(n, line))]
        ELSE IF is_potential_selector(line) /\ k.selector_buffer = <<>>
        THEN [k EXCEPT !.errors =
                 Append(@, Diag("Selector without opening brace '{'", n, line))]
        ELSE k)))))

\* one turn of the loop of QSSSyntaxChecker.check_format
check_line(line0, k0) ==
    Let(Strip(line0), LAMBDA line :
        Let([k0 EXCEPT !.line_num = @ + 1], LAMBDA k :
        IF line = <<>> THEN k
        ELSE IF handle_comments(line, k.in_comment) THEN [k EXCEPT !.in_comment = TRUE]
        ELSE IF k.in_comment
        THEN [k EXCEPT !.in_comment = ~Contains(line, <<"*", "/">>)]
        ELSE IF is_complete_rule(line)
        THEN [k EXCEPT !.errors = @ \o validate_complete_rule(line, k.line_num),
                       !.selector_buffer = <<>>]
        ELSE IF k.in_variables
        THEN IF line = <<"}">>
             THEN [k EXCEPT !.open_braces = @ - 1, !.in_variables = k.open_braces - 1 > 0]
             ELSE [k EXCEPT !.property_buffer = Strip(@ \o <<SP>> \o line)]
        ELSE IF k.in_rule THEN CheckInRule(line, k)
        ELSE CheckOutside(line, k)))

\* the end of QSSSyntaxChecker.check_format, after the loop
check_end(k) ==
    [k EXCEPT !.errors = @ \o finalize_validation(k.open_braces, k.current_selector,
                                                  k.property_buffer, k.last_line_num)]

RECURSIVE CheckLines(_, _)
CheckLines(k, lines) ==
    IF lines = <<>> THEN k ELSE CheckLines(check_line(lines[1], k), Tail(lines))

\* QSSSyntaxChecker.check_format: the returned errors, and the checker afterwards
check_format(checker, lines) ==
    Let(check_end(CheckLines(check_begin(checker), lines)), LAMBDA k :
        [errors |-> k.errors, checker |-> [selector_buffer |-> k.selector_buffer]])

\* a check_format that resets the parser it reports through: what C10 rules out
DispatchErrorsAfterReset(p, errors) ==
    [p EXCEPT !.state = NewParserState,
              !.rule_map = EmptyDict,
              !.variables = EmptyDict,
              !.events = @ \o ErrorEvents(errors)]

\* QSSParser.check_format, after the validator has returned: every diagnostic
\* is handed to the error_found handlers; the parser is not otherwise touched
DispatchErrors(p, errors) == [p EXCEPT !.events = @ \o ErrorEvents(errors)]

\* ------------------------------------------------------------------------
\* QSSStyleSelector
\* ------------------------------------------------------------------------

\* the characters of each word, and the code point of each character: Python
\* orders str values by the code points of their characters
WordChars ==
    [w \in Words |->
        CASE w = "X" -> <<"X">> [] w = "Y" -> <<"Y">> [] w = "a" -> <<"a">>
          [] w = "c" -> <<"c">> [] w = "d" -> <<"d">> [] w = "v" -> <<"v">>
          [] w = "x" -> <<"x">> [] w = "b" -> <<"b">> [] w = "1" -> <<"1">> [] w = "2" -> <<"2">>
          [] w = "color" -> <<"c", "o", "l", "o", "r">>
          [] w = "blue" -> <<"b", "l", "u", "e">>
          [] w = "hover" -> <<"h", "o", "v", "e", "r">>
          [] w = "var" -> <<"v", "a", "r">>
          [] w = "variables" -> <<"v", "a", "r", "i", "a", "b", "l", "e", "s">>
          [] w = "__ATTR_0__" -> <<"_", "_", "A", "T", "T", "R", "_", "0", "_", "_">>
          [] w = "__ATTR_1__" -> <<"_", "_", "A", "T", "T", "R", "_", "1", "_", "_">>
          [] w = "__ATTR_2__" -> <<"_", "_", "A", "T", "T", "R", "_", "2", "_", "_">>]

CharCode ==
    ("\n" :> 10) @@ (" " :> 32) @@ ("\"" :> 34) @@ ("#" :> 35) @@ ("$" :> 36)
    @@ ("(" :> 40) @@ (")" :> 41) @@ ("*" :> 42) @@ ("," :> 44) @@ ("-" :> 45)
    @@ ("/" :> 47) @@ ("0" :> 48) @@ ("1" :> 49) @@ ("2" :> 50) @@ (":" :> 58)
    @@ (";" :> 59) @@ ("=" :> 61) @@ (">" :> 62) @@ ("@" :> 64) @@ ("A" :> 65)
    @@ ("R" :> 82) @@ ("T" :> 84) @@ ("X" :> 88) @@ ("Y" :> 89) @@ ("[" :> 91)
    @@ ("]" :> 93) @@ ("^" :> 94) @@ ("_" :> 95) @@ ("a" :> 97) @@ ("b" :> 98)
    @@ ("c" :> 99) @@ ("d" :> 100) @@ ("e" :> 101) @@ ("h" :> 104) @@ ("i" :> 105)
    @@ ("l" :> 108) @@ ("o" :> 111) @@ ("r" :> 114) @@ ("s" :> 115) @@ ("u" :> 117)
    @@ ("v" :> 118) @@ ("x" :> 120) @@ ("{" :> 123) @@ ("|" :> 124) @@ ("}" :> 125)
    @@ ("~" :> 126)

\* the code points of a str
RECURSIVE CodePoints(_)
CodePoints(s) ==
    IF s = <<>> THEN <<>>
    ELSE [i \in 1..Len(IF s[1] \in Words THEN WordChars[s[1]] ELSE <<s[1]>>) |->
             CharCode[(IF s[1] \in Words THEN WordChars[s[1]] ELSE <<s[1]>>)[i]]]
         \o CodePoints(Tail(s))

\* a < b for two sequences of code points
RECURSIVE CodesLess(_, _)
CodesLess(a, b) ==
    IF b = <<>> THEN FALSE
    ELSE IF a = <<>> THEN TRUE
    ELSE IF a[1] # b[1] THEN a[1] < b[1]
    ELSE CodesLess(Tail(a), Tail(b))

\* s < t for two str
StrLess(s, t) == CodesLess(CodePoints(s), CodePoints(t))

\* s.split("::")[0].split(":")[0].strip()
BaseOf(s) == Strip(BeforeFirst(BeforeFirst(s, <<":", ":">>), <<":">>))

\* [s.strip() for s in parts]
StripEach(parts) == [i \in 1..Len(parts) |-> Strip(parts[i])]

\* re.search(r"[> ]+", s)
HasCombinator(s) == \E i \in 1..Len(s) : s[i] \in {">", SP}

\* re.split(r"[> ]+", s)
RECURSIVE SplitCombinators(_)
SplitCombinators(s) ==
    Let({i \in 1..Len(s) : s[i] \in {">", SP}}, LAMBDA idx :
        IF idx = {} THEN <<s>>
        ELSE <<SubSeq(s, 1, Min(idx) - 1)>>
             \o SplitCombinators(SubSeq(s, RunIn(s, Min(idx), {">", SP}) + 1, Len(s))))

\* a variant of the loop over sel_parts that looks for the className part only and
\* lets every id part pass
PartsMatchClassOnly(sel_parts, object_name, class_name) ==
    \E i \in 1..Len(sel_parts) : BaseOf(sel_parts[i]) = class_name

\* the loop over sel_parts of _get_rules_for_selector: class_match and object_match
\* (the loop breaks at the first part that names another object; nothing after the
\* break can restore object_match)
PartsMatch(sel_parts, object_name, class_name) ==
    /\ \E i \in 1..Len(sel_parts) : BaseOf(sel_parts[i]) = class_name
    /\ \A i \in 1..Len(sel_parts) :
          \/ BaseOf(sel_parts[i]) = class_name
          \/ ~StartsWith(BaseOf(sel_parts[i]), <<"#">>)
          \/ Tail(BaseOf(sel_parts[i])) = object_name

\* a variant of the body of `for sel in rule_selectors` that compares the bases of
\* a simple sel and of the selector and does not look at the widget
SelectorMatchesByBase(sel, selector, object_name, class_name) ==
    IF sel = selector THEN TRUE
    ELSE IF ~HasCombinator(Strip(RemoveAttributes(sel)))
    THEN BaseOf(Strip(RemoveAttributes(sel))) = BaseOf(selector)
    ELSE PartsMatch(StripAll(SplitCombinators(Strip(RemoveAttributes(sel)))),
                    object_name, class_name)

\* the body of `for sel in rule_selectors`: whether sel adds its rule
SelectorMatches(sel, selector, object_name, class_name) ==
    Let(Strip(RemoveAttributes(sel)), LAMBDA sel_without_attrs :
        Let(BaseOf(selector), LAMBDA base_selector :
        IF sel = selector THEN TRUE
        ELSE IF ~HasCombinator(sel_without_attrs)
        THEN /\ BaseOf(sel_without_attrs) = base_selector
             /\ IF StartsWith(base_selector, <<"#">>)
                THEN Tail(base_selector) = object_name
                ELSE base_selector = class_name
        ELSE PartsMatch(StripAll(SplitCombinators(sel_without_attrs)),
                        object_name, class_name)))

\* QSSStyleSelector._get_rules_for_selector: the matching rules.  Python keeps them in
\* a set that compares selector and properties; the rules of a store differ in their
\* selectors, so that set is the set of these records
get_rules_for_selector(rules, selector, object_name, class_name) ==
    {rules[n] : n \in {m \in 1..Len(rules) :
        \E i \in 1..Len(Split(rules[m].selector, ",")) :
            SelectorMatches(StripEach(Split(rules[m].selector, ","))[i],
                            selector, object_name, class_name)}}

\* a widget and the arguments of one get_styles_for call; a fallback_class of <<>>
\* is one not given (None) or empty, which the code does not tell apart
Query(object_name, class_name, fallback_class, additional_selectors, include_class) ==
    [object_name |-> object_name, class_name |-> class_name,
     fallback_class |-> fallback_class, additional_selectors |-> additional_selectors,
     include_class_if_object_name |-> include_class]

\* get_styles_for, `if object_name:` -- the "#objectName" query and, with the
\* flag, the className query
ObjectStep(rules, q) ==
    IF q.object_name = <<>> THEN {}
    ELSE get_rules_for_selector(rules, <<"#">> \o q.object_name, q.object_name, q.class_name)
         \cup (IF q.include_class_if_object_name
               THEN get_rules_for_selector(rules, q.class_name, q.object_name, q.class_name)
               ELSE {})

\* a className query that runs whatever the "#objectName" query matched: what
\* C11 rules out
ClassStepAlways(rules, q, styles) ==
    styles \cup get_rules_for_selector(rules, q.class_name, q.object_name, q.class_name)

\* get_styles_for, `if not object_name or not styles:` -- the className query
ClassStep(rules, q, styles) ==
    IF q.object_name = <<>> \/ styles = {}
    THEN styles \cup get_rules_for_selector(rules, q.class_name, q.object_name, q.class_name)
    ELSE styles

\* a fallbackClass query that runs whatever the earlier queries matched: what
\* C12 rules out
FallbackStepAlways(rules, q, styles) ==
    IF q.fallback_class # <<>>
    THEN styles \cup get_rules_for_selector(rules, q.fallback_class,
                                            q.object_name, q.class_name)
    ELSE styles

\* get_styles_for, `if fallback_class and not styles:`
FallbackStep(rules, q, styles) ==
    IF q.fallback_class # <<>> /\ styles = {}
    THEN styles \cup get_rules_for_selector(rules, q.fallback_class,
                                            q.object_name, q.class_name)
    ELSE styles

\* additionalSelectors queried only when nothing was matched before: what C13
\* rules out
AdditionalStepIfEmpty(rules, q, styles) ==
    IF styles # {} THEN styles
    ELSE UNION {get_rules_for_selector(rules, q.additional_selectors[i],
                                       q.object_name, q.class_name) :
                i \in 1..Len(q.additional_selectors)}

\* get_styles_for, `if additional_selectors:` -- every entry is queried
AdditionalStep(rules, q, styles) ==
    styles \cup UNION {get_rules_for_selector(rules, q.additional_selectors[i],
                                              q.object_name, q.class_name) :
                       i \in 1..Len(q.additional_selectors)}

\* the set `styles` of get_styles_for before it is sorted
SelectedStyles(rules, q) ==
    AdditionalStep(rules, q, FallbackStep(rules, q, ClassStep(rules, q, ObjectStep(rules, q))))

\* no sorting at all, the rules in whatever order the set yields them: what C14
\* rules out
AnyRuleFirst(S) == S

\* sorted(set(styles), key=lambda r: r.selector): sorted() is stable over the
\* iteration order of a set, which is unspecified, so rules with equal selectors
\* may come out in any order; every order sorted() can return
MinRules(S) == {r \in S : \A o \in S : ~StrLess(o.selector, r.selector)}

RECURSIVE SortedOrders(_)
SortedOrders(S) ==
    IF S = {} THEN {<<>>}
    ELSE UNION {{<<m>> \o rest : rest \in SortedOrders(S \ {m})} : m \in MinRules(S)}

\* "\n".join(r.original.rstrip("\n") for r in unique_styles)
StylesText(unique_styles) ==
    Join([i \in 1..Len(unique_styles) |-> RStripChar(unique_styles[i].original, NL)], <<NL>>)

\* QSSStyleSelector.get_styles_for: every (unique_styles, result) the call can produce
get_styles_for(rules, q) ==
    {[rules |-> order, text |-> StylesText(order)] :
        order \in SortedOrders(SelectedStyles(rules, q))}

\* ------------------------------------------------------------------------
\* Bounds and the lines the texts are made of
\* ------------------------------------------------------------------------

\* lines consumed in one behaviour, over all calls
MaxLines == 3

\* lines consumed in one behaviour of check_format() calls alone
MaxCheckLines == 4

\* lines consumed in one behaviour of parse() calls on blocks that may lack their '}'
MaxUnclosedLines == 4

\* lines consumed in one behaviour of parse() calls on rules around an @variables
\* block
MaxDefineLines == 5

\* the lines consumed by the calls of parse() and check_format() on one text each
MaxLenientLines == 6

L_X1 == <<"X", SP, "{", SP, "c", ":", SP, "1", ";", SP, "}">>
L_X2 == <<"X", SP, "{", SP, "c", ":", SP, "2", ";", SP, "}">>
L_X1X2 == L_X1 \o <<SP>> \o L_X2
L_Hover == <<"#", "a", ":", "hover", SP, "{", SP, "c", ":", SP, "1", ";", SP, "}">>
L_Open == <<"X", SP, "{">>
L_Group == <<"X", ",", SP, "Y", SP, "{">>
L_Blue == <<SP, "color", ":", SP, "blue">>
L_C2 == <<"c", ":", SP, "2", ";">>
L_Close == <<"}">>
L_Comment == <<"/", "*", SP, "x", SP, "*", "/">>
L_CommentOpen == <<"/", "*", SP, "x">>
L_VarsOpen == <<"@", "variables", SP, "{">>
L_VarDecl == <<"-", "-", "v", ":", SP, "1", ";">>
L_VarsOneLine == <<"@", "variables", SP, "{", SP, "-", "-", "v", ":", SP, "1", ";", SP, "}">>
L_UseVar == <<"X", SP, "{", SP, "c", ":", SP, "var", "(", "-", "-", "v", ")", ";", SP, "}">>
L_Pending == <<"X", ",">>
L_Bare == <<"X">>
L_NoSemicolon == <<"X", SP, "{", SP, "c", ":", SP, "1", SP, "}">>

L_Empty == <<>>
L_Dup == <<"X", ",", SP, "X", SP, "{", SP, "c", ":", "1", ";", SP, "}">>

L_BadName == <<"X", SP, "{", SP, "1", ":", SP, "2", ";", SP, "c", ":", SP, "1", ";", SP, "}">>
L_ClassId == <<"X", "#", "a", SP, "{">>
L_Twice == <<"X", SP, "{", SP, "c", ":", SP, "1", ";", SP, "c", ":", SP, "2", ";", SP, "}">>
L_C2D1 == <<"c", ":", SP, "2", ";", SP, "d", ":", SP, "1", ";">>

L_DC == <<"X", SP, "{", SP, "d", ":", SP, "1", ";", SP, "c", ":", SP, "1", ";", SP, "}">>
L_ColorD == <<"X", SP, "{", SP, "color", ":", SP, "blue", ";", SP, "d", ":", SP, "2", ";", SP, "}">>

L_IdA == <<"#", "a", SP, "{", SP, "c", ":", SP, "1", ";", SP, "}">>
L_Y1 == <<"Y", SP, "{", SP, "c", ":", SP, "1", ";", SP, "}">>
L_XHover == <<"X", ":", "hover", SP, "{", SP, "c", ":", SP, "1", ";", SP, "}">>

\* the lines of the texts given to parse() alone
ParseCatalogue ==
    {L_X1, L_X2, L_X1X2, L_Hover, L_Open, L_Group, L_Blue, L_C2, L_Close, L_Comment,
     L_CommentOpen, L_VarsOpen, L_VarDecl, L_VarsOneLine, L_UseVar}

\* the lines of the texts given to parse() and check_format() on one parser
SharedCatalogue ==
    {L_X1, L_NoSemicolon, L_Open, L_Close, L_Comment, L_Pending, L_Bare}

\* ------------------------------------------------------------------------
\* The state machine: one QSSParser, with its validator, driven by calls of
\* parse() and check_format(); a call consumes its text line by line
\* ------------------------------------------------------------------------

VARIABLES
    state,            \* QSSParser._state
    rule_map,         \* QSSParser._rule_map
    variables,        \* QSSParser._variable_manager._variables
    events,           \* what the event handlers were given during the call
    selector_buffer,  \* QSSSyntaxChecker._selector_buffer
    locals,           \* the local variables of check_format while it runs
    returned,         \* the list the last check_format call returned
    pc,               \* "idle", or the call in progress: "parse" / "check" / "styles" /
                      \* "resolve" / "match" / "expand"
    parsed,           \* the lines of the text of the last parse() call, so far
    checked,          \* the lines of the text of the last check_format() call, so far
    used,             \* lines consumed so far, over all calls
    entry_dirty,      \* whether the last parse() began on a parser holding data
    entry_buffer,     \* _selector_buffer as the last check_format() found it
    styles_call,      \* the get_styles_for() call in progress: arguments and return value
    resolve_call,     \* the resolve_variable() call in progress: argument and return value
    match_call,       \* the _get_rules_for_selector() call in progress: arguments and
                      \* return value
    expand            \* the resolve_variable() call followed step by step: the re.sub
                      \* calls in progress, visited, errors

vars == <<state, rule_map, variables, events, selector_buffer, locals, returned, pc,
          parsed, checked, used, entry_dirty, entry_buffer, styles_call, resolve_call,
          match_call, expand>>

parser_vars == <<state, rule_map, variables>>
checker_vars == <<selector_buffer, locals, returned, checked, entry_buffer>>
call_vars == <<styles_call, resolve_call, match_call, expand>>

\* no get_styles_for() / resolve_variable() call in progress
NoStylesCall ==
    [called |-> FALSE, query |-> Query(<<>>, <<>>, <<>>, <<>>, FALSE),
     rules |-> <<>>, text |-> <<>>]
NoResolveCall == [called |-> FALSE, value |-> <<>>, result |-> <<>>, error |-> NoError]
NoExpand ==
    [called |-> FALSE, value |-> <<>>, stack |-> <<>>, visited |-> {}, errors |-> <<>>,
     result |-> <<>>, done |-> FALSE]
NoMatchCall ==
    [called |-> FALSE, selector |-> <<>>, object_name |-> <<>>, class_name |-> <<>>,
     rules |-> {}]

\* the parser object the variables hold
P == [state |-> state, rule_map |-> rule_map, variables |-> variables, events |-> events]

SetParser(p) ==
    /\ state' = p.state
    /\ rule_map' = p.rule_map
    /\ variables' = p.variables
    /\ events' = p.events

\* the locals of check_format without / with the checker's own field
LocalsOf(k) == [f \in DOMAIN k \ {"selector_buffer"} |-> k[f]]
WithBuffer(l, sb) ==
    [f \in DOMAIN l \cup {"selector_buffer"} |->
        IF f = "selector_buffer" THEN sb ELSE l[f]]

NoLocals == LocalsOf(check_begin(NewChecker))

\* whether a parser holds anything a later parse() could inherit
Dirty(p) ==
    \/ p.state.rules # <<>>
    \/ p.variables # EmptyDict
    \/ p.state.in_comment \/ p.state.in_rule \/ p.state.in_variables
    \/ p.state.variable_buffer # <<>>

Init ==
    /\ state = NewParser.state
    /\ rule_map = NewParser.rule_map
    /\ variables = NewParser.variables
    /\ events = NewParser.events
    /\ selector_buffer = NewChecker.selector_buffer
    /\ locals = NoLocals
    /\ returned = <<>>
    /\ pc = "idle"
    /\ parsed = <<>>
    /\ checked = <<>>
    /\ used = 0
    /\ entry_dirty = FALSE
    /\ entry_buffer = <<>>
    /\ styles_call = NoStylesCall
    /\ resolve_call = NoResolveCall
    /\ match_call = NoMatchCall
    /\ expand = NoExpand

\* QSSParser.parse, up to its loop: _reset()
ParseBegin ==
    /\ pc = "idle"
    /\ SetParser(reset(P))
    /\ pc' = "parse"
    /\ parsed' = <<>>
    /\ entry_dirty' = Dirty(P)
    /\ UNCHANGED <<checker_vars, used, call_vars>>

\* QSSParser.parse, one turn of its loop, on the next line of the text, while fewer
\* than max_lines lines were consumed
ParseLineWithin(line, max_lines) ==
    /\ pc = "parse"
    /\ used < max_lines
    /\ SetParser(parse_line(line, P))
    /\ parsed' = Append(parsed, line)
    /\ used' = used + 1
    /\ UNCHANGED <<checker_vars, pc, entry_dirty, call_vars>>

ParseLine(line) == ParseLineWithin(line, MaxLines)

\* QSSParser.parse, after its loop, when the text has no further line
ParseEnd ==
    /\ pc = "parse"
    /\ SetParser(parse_end(P))
    /\ pc' = "idle"
    /\ UNCHANGED <<checker_vars, parsed, used, entry_dirty, call_vars>>

\* QSSParser.check_format -> QSSSyntaxChecker.check_format, up to its loop
CheckBegin ==
    /\ pc = "idle"
    /\ locals' = LocalsOf(check_begin([selector_buffer |-> selector_buffer]))
    /\ entry_buffer' = selector_buffer
    /\ checked' = <<>>
    /\ events' = <<>>
    /\ pc' = "check"
    /\ UNCHANGED <<parser_vars, selector_buffer, returned, parsed, used, entry_dirty, call_vars>>

\* QSSSyntaxChecker.check_format, one turn of its loop, on the next line, while
\* fewer than max_lines lines were consumed
CheckLineWithin(line, max_lines) ==
    /\ pc = "check"
    /\ used < max_lines
    /\ locals' = LocalsOf(check_line(line, WithBuffer(locals, selector_buffer)))
    /\ selector_buffer' = check_line(line, WithBuffer(locals, selector_buffer)).selector_buffer
    /\ checked' = Append(checked, line)
    /\ used' = used + 1
    /\ UNCHANGED <<parser_vars, events, returned, pc, parsed, entry_dirty, entry_buffer,
                   call_vars>>

CheckLine(line) == CheckLineWithin(line, MaxLines)

\* QSSSyntaxChecker.check_format after its loop, and the rest of
\* QSSParser.check_format: the diagnostics are dispatched and returned
CheckEnd ==
    /\ pc = "check"
    /\ returned' = check_end(WithBuffer(locals, selector_buffer)).errors
    /\ SetParser(DispatchErrors(P, returned'))
    /\ locals' = NoLocals
    /\ pc' = "idle"
    /\ UNCHANGED <<selector_buffer, checked, entry_buffer, parsed, used, entry_dirty,
                   call_vars>>

\* calls of parse() alone
Next ==
    \/ ParseBegin
    \/ \E line \in ParseCatalogue : ParseLine(line)
    \/ ParseEnd

Spec == Init /\ [][Next]_vars

\* calls of parse() and of check_format(), in any order
NextBoth ==
    \/ ParseBegin
    \/ \E line \in SharedCatalogue : ParseLine(line)
    \/ ParseEnd
    \/ CheckBegin
    \/ \E line \in SharedCatalogue : CheckLine(line)
    \/ CheckEnd

SpecBoth == Init /\ [][NextBoth]_vars

\* the lines of the texts parsed into the store get_styles_for() reads
StyleCatalogue == {L_IdA, L_X2, L_Y1, L_XHover}

\* the widgets and arguments get_styles_for() is called with
ObjectNames == {<<>>, <<"a">>}
ClassNames == {<<"X">>}
FallbackClasses == {<<>>, <<"Y">>}
AdditionalSelectors == {<<>>, <<<<"Y">>>>, <<<<"#", "a">>, <<"Y">>>>}
StyleQueries ==
    {Query(o, c, f, a, i) : o \in ObjectNames, c \in ClassNames, f \in FallbackClasses,
                            a \in AdditionalSelectors, i \in BOOLEAN}

\* QSSParser.get_styles_for -> QSSStyleSelector.get_styles_for on the stored rules,
\* up to its return statement
GetStylesFor(q) ==
    /\ pc = "idle"
    /\ \E r \in get_styles_for(state.rules, q) :
          styles_call' = [called |-> TRUE, query |-> q, rules |-> r.rules, text |-> r.text]
    /\ pc' = "styles"
    /\ UNCHANGED <<parser_vars, events, checker_vars, parsed, used, entry_dirty,
                   resolve_call, match_call, expand>>

\* get_styles_for returns: the text goes to the caller, the parser keeps nothing of it
StylesReturn ==
    /\ pc = "styles"
    /\ styles_call' = NoStylesCall
    /\ pc' = "idle"
    /\ UNCHANGED <<parser_vars, events, checker_vars, parsed, used, entry_dirty,
                   resolve_call, match_call, expand>>

\* calls of parse() and of get_styles_for()
NextStyles ==
    \/ ParseBegin
    \/ \E line \in StyleCatalogue : ParseLine(line)
    \/ ParseEnd
    \/ \E q \in StyleQueries : GetStylesFor(q)
    \/ StylesReturn

SpecStyles == Init /\ [][NextStyles]_vars

\* the lines of the texts given to check_format() alone
CheckCatalogue == {L_Open, L_Blue, L_C2, L_Close, L_VarsOpen, L_Empty}

\* calls of check_format() alone
NextCheck ==
    \/ CheckBegin
    \/ \E line \in CheckCatalogue : CheckLineWithin(line, MaxCheckLines)
    \/ CheckEnd

SpecCheck == Init /\ [][NextCheck]_vars

\* the lines of the texts with a selector list that repeats a branch
DupCatalogue == {L_Dup, L_X2, L_Y1}

\* calls of parse() and of check_format() on texts that repeat a branch
NextDup ==
    \/ ParseBegin
    \/ \E line \in DupCatalogue : ParseLine(line)
    \/ ParseEnd
    \/ CheckBegin
    \/ \E line \in DupCatalogue : CheckLine(line)
    \/ CheckEnd

SpecDup == Init /\ [][NextDup]_vars

\* the lines of the texts whose blocks have bodies and selector lists of every shape
BlockCatalogue ==
    {L_Open, L_C2, L_C2D1, L_Close, L_Pending, L_Y1, L_BadName, L_ClassId, L_Twice}

\* calls of parse() on texts of such blocks
NextBlocks ==
    \/ ParseBegin
    \/ \E line \in BlockCatalogue : ParseLine(line)
    \/ ParseEnd

SpecBlocks == Init /\ [][NextBlocks]_vars

\* the lines of the texts whose blocks are merged into stored rules: one block a line
MergeCatalogue == {L_DC, L_ColorD, L_X1, L_Y1}

\* calls of parse() on texts of such blocks
NextMerge ==
    \/ ParseBegin
    \/ \E line \in MergeCatalogue : ParseLine(line)
    \/ ParseEnd

SpecMerge == Init /\ [][NextMerge]_vars

\* the lines of the texts parsed into the store _get_rules_for_selector() reads:
\* rules of compound and of simple selectors, one block a line
L_XY == <<"X", SP, "Y", SP, "{", SP, "c", ":", SP, "1", ";", SP, "}">>
L_XIdB == <<"X", SP, ">", SP, "#", "b", SP, "{", SP, "c", ":", SP, "1", ";", SP, "}">>
L_YIdA == <<"Y", SP, "#", "a", ":", "hover", SP, "{", SP, "c", ":", SP, "1", ";", SP, "}">>
MatchCatalogue == {L_XY, L_XIdB, L_YIdA, L_XHover, L_IdA, L_Y1}

\* the selectors, objectNames and classNames _get_rules_for_selector() is called with
MatchSelectors == {<<"X">>, <<"Y">>, <<"#", "a">>, <<"Y", SP, "#", "a", ":", "hover">>}
MatchObjectNames == {<<"a">>, <<"b">>}
MatchClassNames == {<<"X">>, <<"Y">>}

\* QSSStyleSelector._get_rules_for_selector on the stored rules, up to its return
\* statement
GetRulesForSelector(selector, object_name, class_name) ==
    /\ pc = "idle"
    /\ match_call' = [called |-> TRUE, selector |-> selector, object_name |-> object_name,
                      class_name |-> class_name,
                      rules |-> get_rules_for_selector(state.rules, selector, object_name,
                                                       class_name)]
    /\ pc' = "match"
    /\ UNCHANGED <<parser_vars, events, checker_vars, parsed, used, entry_dirty,
                   styles_call, resolve_call, expand>>

\* _get_rules_for_selector returns: the list goes to the caller
MatchReturn ==
    /\ pc = "match"
    /\ match_call' = NoMatchCall
    /\ pc' = "idle"
    /\ UNCHANGED <<parser_vars, events, checker_vars, parsed, used, entry_dirty,
                   styles_call, resolve_call, expand>>

\* calls of parse() and of _get_rules_for_selector()
NextMatch ==
    \/ ParseBegin
    \/ \E line \in MatchCatalogue : ParseLine(line)
    \/ ParseEnd
    \/ \E selector \in MatchSelectors, object_name \in MatchObjectNames,
          class_name \in MatchClassNames :
              GetRulesForSelector(selector, object_name, class_name)
    \/ MatchReturn

SpecMatch == Init /\ [][NextMatch]_vars

\* the lines of the texts whose blocks open with a comma-group: with a pseudo
\* marker, with a repeated branch, with other defects
L_PseudoGroup == <<"X", ":", "hover", ",", SP, "Y", SP, "{">>
L_PseudoDup == <<"X", ":", "hover", ",", SP, "X", ":", "hover", SP, "{">>
L_PseudoBad == <<"X", SP, ":", "hover", ",", SP, "Y", "#", "a", SP, "{">>
L_DupBad == <<"X", ",", SP, "X", ",", SP, "Y", "#", "a", SP, "{">>
GroupCatalogue == {L_PseudoGroup, L_PseudoDup, L_PseudoBad, L_DupBad, L_C2, L_Close}

\* calls of check_format() on texts of such blocks
NextGroups ==
    \/ CheckBegin
    \/ \E line \in GroupCatalogue : CheckLine(line)
    \/ CheckEnd

SpecGroups == Init /\ [][NextGroups]_vars

\* the lines of the texts in which a block may open before the one before it was
\* closed
L_OpenY == <<"Y", SP, "{">>
UnclosedCatalogue == {L_Open, L_OpenY, L_C2, L_Close}

\* calls of parse() on such texts
NextUnclosed ==
    \/ ParseBegin
    \/ \E line \in UnclosedCatalogue : ParseLineWithin(line, MaxUnclosedLines)
    \/ ParseEnd

SpecUnclosed == Init /\ [][NextUnclosed]_vars

\* the lines of the texts in which rules that use a variable come before and after
\* the @variables block that defines it
L_UseVarY == <<"Y", SP, "{", SP, "c", ":", SP, "var", "(", "-", "-", "v", ")", ";", SP, "}">>
DefineCatalogue == {L_VarsOpen, L_VarDecl, L_Close, L_UseVar, L_UseVarY}

\* calls of parse() on such texts
NextDefine ==
    \/ ParseBegin
    \/ \E line \in DefineCatalogue : ParseLineWithin(line, MaxDefineLines)
    \/ ParseEnd

SpecDefine == Init /\ [][NextDefine]_vars

\* the lines of a block whose last property has no ';', given to parse() and to
\* check_format()
LenientCatalogue == {L_Open, L_Blue, L_Close}

\* calls of parse() and of check_format() on texts of such a block
NextLenient ==
    \/ ParseBegin
    \/ \E line \in LenientCatalogue : ParseLineWithin(line, MaxLenientLines)
    \/ ParseEnd
    \/ CheckBegin
    \/ \E line \in LenientCatalogue : CheckLineWithin(line, MaxLenientLines)
    \/ CheckEnd

SpecLenient == Init /\ [][NextLenient]_vars

\* the declarations given to parse_variables(), and the blocks made of them
D_AB == <<"-", "-", "a", ":", SP, "var", "(", "-", "-", "b", ")", ";">>
D_BA == <<"-", "-", "b", ":", SP, "var", "(", "-", "-", "a", ")", ";">>
D_A1 == <<"-", "-", "a", ":", SP, "1", ";">>
D_BX == <<"-", "-", "b", ":", SP, "var", "(", "-", "-", "x", ")", ";">>
D_VAX == <<"-", "-", "v", ":", SP, "var", "(", "-", "-", "a", ")", SP,
           "var", "(", "-", "-", "x", ")", ";">>
D_X2 == <<"-", "-", "x", ":", SP, "2", ";">>
VariableBlocks == {D_AB, D_BA, D_AB \o <<SP>> \o D_BA, D_A1, D_BX, D_VAX, D_X2}

\* the values given to resolve_variable()
V_A == <<"var", "(", "-", "-", "a", ")">>
V_B == <<"var", "(", "-", "-", "b", ")">>
V_V == <<"var", "(", "-", "-", "v", ")">>
V_X == <<"var", "(", "-", "-", "x", ")">>
V_AX == V_A \o <<SP>> \o V_X
V_1 == <<"1">>
VariableValues == {V_A, V_B, V_V, V_X, V_AX, V_1}

\* VariableManager.parse_variables(block) on the parser's variable manager; the
\* list of errors goes to the caller
ParseVariables(block) ==
    /\ pc = "idle"
    /\ variables' = parse_variables(variables, block, 1).variables
    /\ UNCHANGED <<state, rule_map, events, checker_vars, pc, parsed, used, entry_dirty,
                   call_vars>>

\* VariableManager.resolve_variable(value), up to its return statement
ResolveVariable(value) ==
    /\ pc = "idle"
    /\ resolve_call' = [called |-> TRUE, value |-> value,
                        result |-> resolve_variable(variables, value).value,
                        error |-> resolve_variable(variables, value).error]
    /\ pc' = "resolve"
    /\ UNCHANGED <<parser_vars, events, checker_vars, parsed, used, entry_dirty,
                   styles_call, match_call, expand>>

\* resolve_variable returns: the pair goes to the caller, the table is as it was
ResolveReturn ==
    /\ pc = "resolve"
    /\ resolve_call' = NoResolveCall
    /\ pc' = "idle"
    /\ UNCHANGED <<parser_vars, events, checker_vars, parsed, used, entry_dirty,
                   styles_call, match_call, expand>>

\* calls of parse_variables() and of resolve_variable() on one variable manager
NextVariables ==
    \/ \E block \in VariableBlocks : ParseVariables(block)
    \/ \E value \in VariableValues : ResolveVariable(value)
    \/ ResolveReturn

SpecVariables == Init /\ [][NextVariables]_vars

\* VariableManager.resolve_variable(value), its first statements: visited and errors
\* are empty and re.sub starts on the value
ExpandBegin(value) ==
    /\ pc = "idle"
    /\ expand' = [called |-> TRUE, value |-> value, stack |-> <<NewFrame(value, <<>>)>>,
                  visited |-> {}, errors |-> <<>>, result |-> <<>>, done |-> FALSE]
    /\ pc' = "expand"
    /\ UNCHANGED <<parser_vars, events, checker_vars, parsed, used, entry_dirty,
                   styles_call, resolve_call, match_call>>

\* one step of the re.sub / replace_var recursion
ExpandStep ==
    /\ pc = "expand"
    /\ ~expand.done
    /\ expand' = ExpandNext(expand, variables)
    /\ UNCHANGED <<parser_vars, events, checker_vars, pc, parsed, used, entry_dirty,
                   styles_call, resolve_call, match_call>>

\* resolve_variable returns once the outermost re.sub has returned
ExpandReturn ==
    /\ pc = "expand"
    /\ expand.done
    /\ expand' = NoExpand
    /\ pc' = "idle"
    /\ UNCHANGED <<parser_vars, events, checker_vars, parsed, used, entry_dirty,
                   styles_call, resolve_call, match_call>>

\* calls of parse_variables() and of resolve_variable(), the latter step by step
NextExpand ==
    \/ \E block \in VariableBlocks : ParseVariables(block)
    \/ \E value \in VariableValues : ExpandBegin(value)
    \/ ExpandStep
    \/ ExpandReturn

\* a call of resolve_variable that has begun runs on: no other code runs meanwhile
SpecExpand == Init /\ [][NextExpand]_vars /\ WF_vars(ExpandStep)

\* ------------------------------------------------------------------------
\* Properties
\* ------------------------------------------------------------------------

\* the rule set of a store: selectors in order, each with its name/value pairs
RuleSet(rules) ==
    [i \in 1..Len(rules) |->
        [selector |-> rules[i].selector,
         properties |-> [j \in 1..Len(rules[i].properties) |->
                            <<rules[i].properties[j].name, rules[i].properties[j].value>>]]]

CountEvents(evs, kind) == Cardinality({i \in 1..Len(evs) : evs[i].kind = kind})

\* what a later call can observe of a parser
Observed(p) ==
    [rules |-> p.state.rules, rule_map |-> p.rule_map, variables |-> p.variables,
     in_comment |-> p.state.in_comment, in_rule |-> p.state.in_rule,
     in_variables |-> p.state.in_variables, buffer |-> p.state.buffer,
     variable_buffer |-> p.state.variable_buffer,
     current_selectors |-> p.state.current_selectors,
     current_rules |-> p.state.current_rules,
     original_selector |-> p.state.original_selector]

RuleXWith(value) ==
    [selector |-> <<"X">>, properties |-> <<<<<<"c">>, <<value>>>>>>]

\* C1: at every point of every parse(), whatever blocks the text holds, no two
\* stored rules have the same selector string, and the selector-to-rule map
\* refers to exactly the rules of the stored list, each under its own selector
C1_OneRulePerSelector ==
    /\ \A i, j \in 1..Len(state.rules) :
          state.rules[i].selector = state.rules[j].selector => i = j
    /\ DOMAIN rule_map = {state.rules[i].selector : i \in 1..Len(state.rules)}
    /\ \A sel \in DOMAIN rule_map :
          /\ rule_map[sel] \in 1..Len(state.rules)
          /\ state.rules[rule_map[sel]].selector = sel

\* a parse() has returned that was given some selector again (more rules were
\* handed to the store than it holds) and left at least two rules
C1_Witness ==
    /\ pc = "idle"
    /\ Len(state.rules) >= 2
    /\ CountEvents(events, "rule_added") > Len(state.rules)

\* C2: when selector X is given in two blocks of one text, the first setting
\* c to 1 and the second setting c to 2, on one line or on two, parse() leaves
\* exactly one stored rule for X and its c is 2
C2_LastBlockWins ==
    (pc = "idle" /\ parsed \in {<<L_X1X2>>, <<L_X1, L_X2>>})
        => RuleSet(state.rules) = <<RuleXWith("2")>>

\* C3: a comment ends at the first `*/`: after a line that opens a comment and
\* also closes it, neither parse() nor check_format() is in comment state, a
\* rule on the next line is stored and an error on the next line is reported
C3_CommentEndsAtFirstClose ==
    /\ (pc = "parse" /\ parsed # <<>> /\ parsed[Len(parsed)] = L_Comment)
          => ~state.in_comment
    /\ (pc = "check" /\ checked # <<>> /\ checked[Len(checked)] = L_Comment)
          => ~locals.in_comment
    /\ (pc = "idle" /\ parsed = <<L_Comment, L_X1>>)
          => RuleSet(state.rules) = <<RuleXWith("1")>>
    /\ (pc = "idle" /\ checked = <<L_Comment, L_Close>>)
          => returned # <<>>

\* C4: parsing `#a:hover { c: 1; }` leaves two stored rules, `#a:hover` and
\* the pseudo-stripped base `#a`, both containing c: 1
C4_BaseRuleForPseudoState ==
    (pc = "idle" /\ parsed = <<L_Hover>>)
        => /\ Len(state.rules) = 2
           /\ {RuleSet(state.rules)[i] : i \in 1..Len(state.rules)} =
                 {[selector |-> <<"#", "a", ":", "hover">>,
                   properties |-> <<<<<<"c">>, <<"1">>>>>>],
                  [selector |-> <<"#", "a">>,
                   properties |-> <<<<<<"c">>, <<"1">>>>>>]}

\* C5: when the input ends while a rule block is still open, the end of
\* parse() stores nothing and the call has emitted exactly one
\* invalid_rule_skipped event
C5_OpenBlockAtEndOfInput ==
    [][(pc = "parse" /\ pc' = "idle" /\ state.in_rule)
          => /\ state'.rules = state.rules
             /\ CountEvents(events', "invalid_rule_skipped") = 1]_vars

\* C6: for `X {`, then the line `color: blue`, then end of input, parse()
\* emits an invalid_rule_skipped event whose payload carries the selector X
\* and the buffered body text `color: blue`
C6_SkippedPayloadCarriesBody ==
    (pc = "idle" /\ parsed = <<L_Open, L_Blue>>)
        => \E i \in 1..Len(events) :
              /\ events[i].kind = "invalid_rule_skipped"
              /\ Contains(events[i].payload, <<"X">>)
              /\ Contains(events[i].payload, Strip(L_Blue))

\* C7: round trip: parsing the to_string() output of a parsed text yields the
\* same rule set as the text did (same selectors in the same order, same
\* property name/value pairs per rule)
C7_RoundTrip ==
    pc = "idle"
        => RuleSet(parse(NewParser, SplitLines(to_string(P))).state.rules)
              = RuleSet(state.rules)

\* C8: parse() starts from empty state: during and after a parse() on a parser
\* that has parsed before, rules, variable bindings, rule map and block and
\* comment state are exactly those of a new parser given the same lines
C8_ParseStartsEmpty ==
    /\ pc = "parse" => Observed(P) = Observed(ParseLines(reset(NewParser), parsed))
    /\ pc = "idle" => Observed(P) = Observed(parse(NewParser, parsed))

\* a second parse() has returned with rules stored, on a parser that held
\* rules, variables or an open block or comment when the call began
C8_Witness ==
    /\ pc = "idle"
    /\ entry_dirty
    /\ parsed # <<>>
    /\ state.rules # <<>>

\* C9: the diagnostics check_format() returns for a text are those a new
\* validator returns for it, whatever the validator has checked before
C9_CheckStartsReset ==
    pc = "idle" => returned = check_format(NewChecker, checked).errors

\* C10: a step of check_format() leaves the rule store, the variable bindings
\* and the parser state unchanged, a step of parse() leaves the validator's
\* state unchanged, and so the rules a parse() leaves are those of its text
\* alone and the diagnostics a check_format() returns are those of its text
\* and the validator as the call found it, in whichever order the two ran
C10_NoSharedState ==
    [][/\ (pc = "check" \/ pc' = "check") => UNCHANGED <<state, rule_map, variables>>
       /\ (pc = "parse" \/ pc' = "parse")
             => UNCHANGED <<selector_buffer, locals, returned>>
       /\ pc' = "idle"
             => /\ RuleSet(state'.rules) = RuleSet(parse(NewParser, parsed').state.rules)
                /\ variables' = parse(NewParser, parsed').variables
                /\ returned' = check_format([selector_buffer |-> entry_buffer'],
                                            checked').errors]_vars

\* parse() and check_format() have both returned, on the same text, with
\* rules stored and diagnostics reported
C10_Witness ==
    /\ pc = "idle"
    /\ parsed # <<>>
    /\ parsed = checked
    /\ state.rules # <<>>
    /\ returned # <<>>

\* the queries of the get_styles_for() call in progress, on the store it reads
CallQuery == styles_call.query
ObjectQuery ==
    get_rules_for_selector(state.rules, <<"#">> \o CallQuery.object_name,
                           CallQuery.object_name, CallQuery.class_name)
ClassQuery ==
    get_rules_for_selector(state.rules, CallQuery.class_name,
                           CallQuery.object_name, CallQuery.class_name)
FallbackQuery ==
    get_rules_for_selector(state.rules, CallQuery.fallback_class,
                           CallQuery.object_name, CallQuery.class_name)

\* what the objectName and className queries matched together
PrimaryMatches ==
    IF CallQuery.object_name = <<>> THEN ClassQuery
    ELSE ObjectQuery \cup (IF CallQuery.include_class_if_object_name \/ ObjectQuery = {}
                           THEN ClassQuery ELSE {})

\* the rules the call returns, as a set and as their selectors in order
ReturnedRules == {styles_call.rules[i] : i \in 1..Len(styles_call.rules)}
ReturnedSelectors == [i \in 1..Len(styles_call.rules) |-> styles_call.rules[i].selector]
StoredSelectors == {state.rules[i].selector : i \in 1..Len(state.rules)}

\* C11: in a get_styles_for() with a non-empty objectName (no fallbackClass, no
\* additionalSelectors), the rules returned are those of the `#objectName` query,
\* joined by those of the className query exactly when the flag is set or the
\* `#objectName` query matched nothing; on a store holding `#a` and `X`, identity
\* (a, X) gets only `#a` by default and `#a` and `X` with the flag
C11_ClassQueryWhenAskedOrNeeded ==
    (/\ pc = "styles"
     /\ CallQuery.object_name # <<>>
     /\ CallQuery.fallback_class = <<>>
     /\ CallQuery.additional_selectors = <<>>)
        => /\ ReturnedRules =
                 ObjectQuery \cup (IF CallQuery.include_class_if_object_name \/ ObjectQuery = {}
                                   THEN ClassQuery ELSE {})
           /\ (StoredSelectors = {<<"#", "a">>, <<"X">>}
                  /\ CallQuery.object_name = <<"a">> /\ CallQuery.class_name = <<"X">>)
                 => ReturnedSelectors =
                       IF CallQuery.include_class_if_object_name
                       THEN <<<<"#", "a">>, <<"X">>>> ELSE <<<<"#", "a">>>>

\* a default call for (a, X) on a store holding `#a` and `X`: the className query
\* would have matched, and only the `#a` rule is returned
C11_Witness ==
    /\ pc = "styles"
    /\ CallQuery.object_name = <<"a">>
    /\ ~CallQuery.include_class_if_object_name
    /\ CallQuery.fallback_class = <<>>
    /\ CallQuery.additional_selectors = <<>>
    /\ StoredSelectors = {<<"#", "a">>, <<"X">>}
    /\ ClassQuery # {}
    /\ ReturnedSelectors = <<<<"#", "a">>>>

\* C12: in a get_styles_for() (no additionalSelectors), when the objectName and
\* className queries matched a rule the rules returned are exactly theirs, with
\* or without a fallbackClass; the fallbackClass query supplies the result only
\* when they matched nothing
C12_FallbackOnlyWhenEmpty ==
    (pc = "styles" /\ CallQuery.additional_selectors = <<>>)
        => /\ PrimaryMatches # {} => ReturnedRules = PrimaryMatches
           /\ (PrimaryMatches = {} /\ CallQuery.fallback_class # <<>>)
                 => ReturnedRules = FallbackQuery
           /\ (PrimaryMatches = {} /\ CallQuery.fallback_class = <<>>)
                 => ReturnedRules = {}

\* a call with a fallbackClass that has a rule of its own in the store, where the
\* earlier queries matched: that rule is not returned
C12_Witness ==
    /\ pc = "styles"
    /\ CallQuery.fallback_class # <<>>
    /\ CallQuery.additional_selectors = <<>>
    /\ PrimaryMatches # {}
    /\ FallbackQuery # {}
    /\ FallbackQuery \cap ReturnedRules = {}

\* C13: every entry of additionalSelectors is queried whatever the earlier steps
\* returned: the rules a get_styles_for() returns include the matches of each
\* entry, and include the rules the same call returns without additionalSelectors
C13_AdditionalAlwaysQueried ==
    pc = "styles"
        => /\ \A i \in 1..Len(CallQuery.additional_selectors) :
                 get_rules_for_selector(state.rules, CallQuery.additional_selectors[i],
                                        CallQuery.object_name, CallQuery.class_name)
                    \subseteq ReturnedRules
           /\ \A r \in get_styles_for(state.rules,
                                      [CallQuery EXCEPT !.additional_selectors = <<>>]) :
                 {r.rules[i] : i \in 1..Len(r.rules)} \subseteq ReturnedRules

\* a call whose earlier queries matched a rule and whose additionalSelectors
\* add another one
C13_Witness ==
    /\ pc = "styles"
    /\ CallQuery.additional_selectors # <<>>
    /\ PrimaryMatches # {}
    /\ ReturnedRules \ PrimaryMatches # {}
    /\ PrimaryMatches \subseteq ReturnedRules

\* C14: get_styles_for() returns each matching stored rule exactly once, the
\* rules in ascending order of their selector strings, and the store and the
\* arguments determine the output
C14_OncePerRuleSortedBySelector ==
    pc = "styles"
        => /\ \A i, j \in 1..Len(styles_call.rules) :
                 styles_call.rules[i] = styles_call.rules[j] => i = j
           /\ ReturnedRules =
                 (IF PrimaryMatches # {} THEN PrimaryMatches
                  ELSE IF CallQuery.fallback_class # <<>> THEN FallbackQuery ELSE {})
                 \cup UNION {get_rules_for_selector(state.rules,
                                                    CallQuery.additional_selectors[i],
                                                    CallQuery.object_name,
                                                    CallQuery.class_name) :
                             i \in 1..Len(CallQuery.additional_selectors)}
           /\ \A i, j \in 1..Len(styles_call.rules) :
                 i < j => StrLess(styles_call.rules[i].selector,
                                  styles_call.rules[j].selector)
           /\ Cardinality(get_styles_for(state.rules, CallQuery)) = 1

\* a call that returns two rules or more, stored in another order than the one
\* returned, one of them matched by two of its queries
C14_Witness ==
    /\ pc = "styles"
    /\ Len(styles_call.rules) >= 2
    /\ \E i, j \in 1..Len(state.rules) :
          /\ i < j
          /\ state.rules[i] \in ReturnedRules /\ state.rules[j] \in ReturnedRules
          /\ StrLess(state.rules[j].selector, state.rules[i].selector)
    /\ \E i \in 1..Len(CallQuery.additional_selectors) :
          get_rules_for_selector(state.rules, CallQuery.additional_selectors[i],
                                 CallQuery.object_name, CallQuery.class_name)
             \cap PrimaryMatches # {}

\* the names of the variables a text refers to that the table does not hold
UnknownNames(text) ==
    {VarNamesIn(text, 1)[i] : i \in {j \in 1..Len(VarNamesIn(text, 1)) :
                                        VarNamesIn(text, 1)[j] \notin DOMAIN variables}}

N_A == <<"-", "-", "a">>
N_B == <<"-", "-", "b">>

\* --a: var(--b) and --b: var(--a) are in the table and var(--a) is being resolved
CycleCall ==
    /\ pc = "resolve"
    /\ N_A \in DOMAIN variables /\ N_B \in DOMAIN variables
    /\ variables[N_A] = V_B /\ variables[N_B] = V_A
    /\ resolve_call.value = V_A

\* C15: with --a: var(--b) and --b: var(--a) in the table, resolving var(--a) returns
\* the literal var(--a), unexpanded, with a circular-reference error naming --a
C15_CycleLeftUnexpanded ==
    CycleCall =>
        /\ resolve_call.result = V_A
        /\ resolve_call.error = Diag("Circular variable reference detected", 0, N_A)

C15_Witness == CycleCall /\ resolve_call.called

\* C16: when no circular reference occurred and the text resolve_variable returns
\* still refers to a variable the table does not hold, the error returned is the
\* undefined-variables error and lists every such name
C16_UndefinedAlwaysReported ==
    (/\ pc = "resolve"
     /\ resolve_call.error.kind # "Circular variable reference detected"
     /\ UnknownNames(resolve_call.result) # {})
        => /\ resolve_call.error.kind = "Undefined variables"
           /\ \A n \in UnknownNames(resolve_call.result) :
                 Contains(resolve_call.error.text, n)

\* check_format() has returned
Checked == pc = "idle" /\ checked # <<>>

HasDiag(errors, d) == \E i \in 1..Len(errors) : errors[i] = d

\* the text opens a rule on line 1, has `color: blue` on line 2 and, after blank
\* lines only, the line that ends the property on line j
BlueEndsAt(text, j) ==
    /\ j \in 3..Len(text)
    /\ text[1] = L_Open /\ text[2] = L_Blue
    /\ text[j] \in {L_Close, L_C2}
    /\ \A i \in 3..(j - 1) : text[i] = L_Empty

\* C17: a property of a rule body that no ';' ends before the next property or the
\* closing '}' is reported as Property missing ';' with the number of the line that
\* holds the property's last text: line 2 for `color: blue` on line 2
C17_MissingSemicolonAtLastText ==
    (Checked /\ \E j \in 1..Len(checked) : BlueEndsAt(checked, j))
        => HasDiag(returned, Diag("Property missing ';'", 2, Strip(L_Blue)))

\* the lines that open a block: of a rule, of variables
Openers == {L_Open, L_VarsOpen}

HasKind(errors, kind) == \E i \in 1..Len(errors) : errors[i].kind = kind

\* C18: when the text ends while a '{' is unmatched, of a rule block or of an
\* @variables block, check_format() returns an unclosed-brace diagnostic; the last
\* line of the text being the opener, its '{' is unmatched
C18_UnclosedBraceReported ==
    (Checked /\ checked[Len(checked)] \in Openers)
        => HasKind(returned, "Unclosed brace '{' for selector")

\* line i of the text is an @variables opener and the line before it opened a block,
\* the first block of the text
NestedAt(text, i) ==
    /\ i \in 2..Len(text)
    /\ text[i] = L_VarsOpen
    /\ text[i - 1] \in Openers
    /\ \A j \in 1..(i - 2) : text[j] \notin Openers

\* C19: an @variables opener met while a block is open, a rule block or another
\* @variables block, is reported by check_format() as a nested @variables block
C19_NestedVariablesReported ==
    \A i \in 1..Len(checked) :
        (Checked /\ NestedAt(checked, i))
            => HasDiag(returned, NestedVariables(i, L_VarsOpen))

\* parse() has returned
Parsed == pc # "parse" /\ parsed # <<>>

LinesOf(text) == {text[i] : i \in 1..Len(text)}

\* the stored rules whose selector is sel
RulesFor(sel) == {i \in 1..Len(state.rules) : state.rules[i].selector = sel}

\* C20: for the list `X, X { c:1; }`, which repeats the branch X, check_format()
\* returns a duplicate-selector diagnostic for the line and parse() stores exactly
\* one rule X
C20_DuplicateReportedStoredOnce ==
    /\ \A i \in 1..Len(checked) :
          (Checked /\ checked[i] = L_Dup)
              => HasDiag(returned,
                         Diag("Duplicate selector in comma-separated list", i, <<"X">>))
    /\ (Parsed /\ L_Dup \in LinesOf(parsed)) => Cardinality(RulesFor(<<"X">>)) = 1

C20_Witness ==
    /\ Checked /\ L_Dup \in LinesOf(checked)
    /\ Parsed /\ L_Dup \in LinesOf(parsed)
    /\ HasKind(returned, "Duplicate selector in comma-separated list")
    /\ Cardinality(RulesFor(<<"X">>)) = 1

\* C21: a parse() call emits parse_completed exactly once, and after every
\* rule_added, variable_defined, error_found and invalid_rule_skipped event of the
\* call, also when the text ends inside an open rule or an open @variables block
C21_CompletedOnceAndLast ==
    [][(pc = "parse" /\ pc' = "idle")
          => /\ CountEvents(events, "parse_completed") = 0
             /\ CountEvents(events', "parse_completed") = 1
             /\ events'[Len(events')].kind = "parse_completed"]_vars

\* a parse() has returned whose text ended inside an open rule, after a rule was stored
C21_Witness ==
    /\ pc = "idle"
    /\ CountEvents(events, "invalid_rule_skipped") = 1
    /\ CountEvents(events, "rule_added") >= 1
    /\ events[Len(events)].kind = "parse_completed"

\* the selectors of the blocks of a text in standard format, in the order of the text
Headers(text) ==
    [i \in 1..Len(SelectSeq(SplitLines(text), LAMBDA l : EndsWith(l, <<SP, "{">>))) |->
        SubSeq(SelectSeq(SplitLines(text), LAMBDA l : EndsWith(l, <<SP, "{">>))[i], 1,
               Len(SelectSeq(SplitLines(text), LAMBDA l : EndsWith(l, <<SP, "{">>))[i]) - 2)]

\* the selectors the rule_added events of a call name, each at its first event
RECURSIVE FirstStored(_, _)
FirstStored(evs, seen) ==
    IF evs = <<>> THEN <<>>
    ELSE IF evs[1].kind = "rule_added" /\ evs[1].payload \notin seen
    THEN <<evs[1].payload>> \o FirstStored(Tail(evs), seen \cup {evs[1].payload})
    ELSE FirstStored(Tail(evs), seen)

\* C23: to_string() lists the stored rules in the order in which their selectors
\* were first stored; a later block merged into a rule moves neither that rule nor
\* any other
C23_FirstStoredOrder == Headers(to_string(P)) = FirstStored(events, {})

\* two rules are stored and a later block was merged into the first of them
C23_Witness ==
    /\ pc = "idle"
    /\ Len(state.rules) = 2
    /\ parsed = <<L_X1, L_Hover, L_X2>>
    /\ Headers(to_string(P)) = <<<<"X">>, <<"#", "a", ":", "hover">>>>

\* C24: an @variables block defines each well-formed declaration in it and leaves
\* no stored rule, written over several lines or on one line
C24_VariablesBlockDefines ==
    /\ \A i \in 1..Len(state.rules) : ~StartsWith(state.rules[i].selector, <<"@", "variables">>)
    /\ (pc = "idle" /\ parsed \in {<<L_VarsOneLine>>, <<L_VarsOpen, L_VarDecl, L_Close>>})
          => /\ <<"-", "-", "v">> \in DOMAIN variables
             /\ variables[<<"-", "-", "v">>] = <<"1">>
             /\ state.rules = <<>>

\* the name/value pairs of the stored rule of selector sel, <<>> when there is none
StoredProperties(sel) ==
    IF RulesFor(sel) = {} THEN <<>>
    ELSE RuleSet(state.rules)[CHOOSE i \in RulesFor(sel) : TRUE].properties

Pair(name, value) == <<<<name>>, <<value>>>>

\* C22: when parse() drops a property from a rule, here `1: 2` for its invalid
\* name, it emits an error_found diagnostic for it, and the other properties of the
\* block and the blocks after it are stored
C22_DroppedPropertyReported ==
    (pc = "idle" /\ Len(parsed) >= 1 /\ parsed[1] = L_BadName)
        => /\ CountEvents(events, "error_found") >= 1
           /\ \E i \in 1..Len(StoredProperties(<<"X">>)) :
                 StoredProperties(<<"X">>)[i][1] = <<"c">>
           /\ (Len(parsed) >= 2 /\ parsed[2] = L_Y1) => RulesFor(<<"Y">>) # {}

\* C25: a block headed by a comma-group gives every branch its rule with the
\* properties of the block, also when the group is continued over lines ending in
\* ',': the fragment X buffered by `X,` and the branch Y of the line after it
C25_EveryBranchGetsItsRule ==
    (pc = "idle" /\ parsed = <<L_Pending, L_Y1>>)
        => /\ StoredProperties(<<"X">>) = <<Pair("c", "1")>>
           /\ StoredProperties(<<"Y">>) = <<Pair("c", "1")>>

\* C26: in a multi-line rule body every complete `name: value;` fragment becomes
\* a stored property of its own wherever the line breaks fall: two fragments on one
\* body line give two properties
C26_FragmentsSplitOnSemicolon ==
    (pc = "idle" /\ parsed = <<L_Open, L_C2D1, L_Close>>)
        => StoredProperties(<<"X">>) = <<Pair("c", "2"), Pair("d", "1")>>

\* C27: when the selector of a block opened in parse() has a syntax error other
\* than a duplicate branch, here X#a, parse() consumes the body up to the closing
\* '}' and stores no rule for the block
C27_InvalidSelectorStoresNothing ==
    (/\ pc = "idle" /\ parsed = <<L_ClassId, L_C2, L_Close>>
     /\ validate_selector_syntax(<<"X", "#", "a">>, 1) # <<>>)
        => state.rules = <<>> /\ ~state.in_rule

\* C30: every stored rule holds at most one property per name, also when a single
\* block names a property twice
C30_OnePropertyPerName ==
    \A r \in 1..Len(state.rules) :
        \A i, j \in 1..Len(state.rules[r].properties) :
            state.rules[r].properties[i].name = state.rules[r].properties[j].name => i = j

\* the block of a line that holds one block: the rule the line stores in an empty store
IncomingRule(line) == parse(NewParser, <<line>>).state.rules[1]

\* the properties of the rule of selector sel in a list of rules
PropertiesIn(rules, sel) ==
    rules[CHOOSE i \in 1..Len(rules) : rules[i].selector = sel].properties

Names(properties) == {properties[i].name : i \in 1..Len(properties)}

\* the step of parse() on a line whose block is merged into a stored rule
MergeStep ==
    /\ pc = "parse" /\ pc' = "parse"
    /\ Len(parsed') = Len(parsed) + 1
    /\ RulesFor(IncomingRule(parsed'[Len(parsed')]).selector) # {}

\* every property the rule had is where it was, with the incoming value if the
\* incoming block names it and with its own value otherwise
KeepsPositions(old, incoming, new) ==
    /\ Len(new) >= Len(old)
    /\ \A i \in 1..Len(old) :
          /\ new[i].name = old[i].name
          /\ \A j \in 1..Len(incoming) :
                incoming[j].name = old[i].name => new[i].value = incoming[j].value
          /\ old[i].name \notin Names(incoming) => new[i].value = old[i].value

\* the properties new to the rule follow the ones it had, in incoming order
AppendsNew(old, incoming, new) ==
    /\ Len(new) >= Len(old)
    /\ SubSeq(new, Len(old) + 1, Len(new))
          = SelectSeq(incoming, LAMBDA q : q.name \notin Names(old))

\* the properties the incoming block does not name come first, in their order, and
\* the ones it names follow them
NamedOnesLast(old, incoming, new) ==
    /\ Len(new) >= Len(SelectSeq(old, LAMBDA q : q.name \notin Names(incoming)))
    /\ SubSeq(new, 1, Len(SelectSeq(old, LAMBDA q : q.name \notin Names(incoming))))
          = SelectSeq(old, LAMBDA q : q.name \notin Names(incoming))
    /\ \A i \in (Len(SelectSeq(old, LAMBDA q : q.name \notin Names(incoming))) + 1)..Len(new) :
          new[i].name \in Names(incoming)

\* the properties the incoming block does not name keep their relative order and
\* their values, and the properties new to the rule come after all it had
UnnamedKeepOrder(old, incoming, new) ==
    /\ SelectSeq(new, LAMBDA q : q.name \notin Names(incoming))
          = SelectSeq(old, LAMBDA q : q.name \notin Names(incoming))
    /\ Len(new) >= Len(old)
    /\ \A i \in 1..Len(new) : (new[i].name \in Names(old)) <=> (i <= Len(old))

C29_OverwrittenInPlace ==
    [][MergeStep =>
          /\ KeepsPositions(PropertiesIn(state.rules, IncomingRule(parsed'[Len(parsed')]).selector),
                            IncomingRule(parsed'[Len(parsed')]).properties,
                            PropertiesIn(state.rules', IncomingRule(parsed'[Len(parsed')]).selector))
          /\ AppendsNew(PropertiesIn(state.rules, IncomingRule(parsed'[Len(parsed')]).selector),
                        IncomingRule(parsed'[Len(parsed')]).properties,
                        PropertiesIn(state.rules', IncomingRule(parsed'[Len(parsed')]).selector))]_vars

\* existing [d, c] was merged with [color, d]: d overwritten in place, color appended
C29_Witness ==
    /\ pc = "idle"
    /\ parsed = <<L_DC, L_ColorD>>
    /\ StoredProperties(<<"X">>) = <<Pair("d", "2"), Pair("c", "1"), Pair("color", "blue")>>

\* the text ends with the block `X {`, ` color: blue`, `}`, whose last property has
\* no ';'
EndsUnterminated(text) ==
    /\ Len(text) >= 3
    /\ SubSeq(text, Len(text) - 2, Len(text)) = <<L_Open, L_Blue, L_Close>>

C32_NestedOpenerRejected ==
    (pc = "parse" /\ parsed = <<L_VarsOpen, L_VarDecl, L_VarsOpen>>)
        => /\ CountEvents(events, "error_found") >= 1
           /\ state.in_variables
           /\ Contains(state.variable_buffer, L_VarDecl)

\* the step of parse() on a line that holds one whole rule, taken while no comment
\* and no @variables block is open: the line is processed as a single-line rule
OneLineRuleStep ==
    /\ pc = "parse" /\ pc' = "parse"
    /\ Len(parsed') = Len(parsed) + 1
    /\ parsed'[Len(parsed')] \in {L_X1, L_X2, L_Hover}
    /\ ~state.in_comment /\ ~state.in_variables

\* C33: a single-line `selector { properties }` rule is processed without touching
\* the multi-line state: the in-rule flag, the rules open for an enclosing block
\* and the pending selector fragments are after the line what they were before it
C33_OneLineRuleKeepsBlockState ==
    [][OneLineRuleStep
          => /\ state'.in_rule = state.in_rule
             /\ state'.current_rules = state.current_rules
             /\ state'.current_selectors = state.current_selectors]_vars

\* the branches of the selector list of a stored rule
Branches(rule) == StripEach(Split(rule.selector, ","))

\* a branch combined of parts by spaces or '>', its attribute clauses set aside
Compound(branch) == HasCombinator(Strip(RemoveAttributes(branch)))

PartsOf(branch) == StripAll(SplitCombinators(Strip(RemoveAttributes(branch))))

IdForm(base) == StartsWith(base, <<"#">>)

\* at least one part has the className as its pseudo-stripped base and no id-form
\* part names an id other than the objectName
ClassPartAndNoOtherId(branch, object_name, class_name) ==
    /\ \E i \in 1..Len(PartsOf(branch)) : BaseOf(PartsOf(branch)[i]) = class_name
    /\ \A i \in 1..Len(PartsOf(branch)) :
          IdForm(BaseOf(PartsOf(branch)[i]))
              => Tail(BaseOf(PartsOf(branch)[i])) = object_name

\* a _get_rules_for_selector() call has computed its list
Matched == pc = "match" /\ match_call.called

\* C34, as the spec states it: a compound branch of a stored rule matches a query,
\* whatever the query selector is, exactly when one of its parts has the className
\* as its base and none of its id-form parts names an id other than the objectName
C34_CompoundMatchesByParts ==
    \A n \in 1..Len(state.rules) :
        (Matched /\ \A i \in 1..Len(Branches(state.rules[n])) :
                        Compound(Branches(state.rules[n])[i]))
            => (state.rules[n] \in match_call.rules
                   <=> \E i \in 1..Len(Branches(state.rules[n])) :
                          ClassPartAndNoOtherId(Branches(state.rules[n])[i],
                                                match_call.object_name,
                                                match_call.class_name))

\* C34, amended: a compound branch identical to the query selector always matches;
\* a compound branch not identical to it matches exactly when one of its parts has
\* the className as its base and none of its id-form parts names an id other than
\* the objectName
C34_CompoundMatchesByPartsOrIdentity ==
    \A n \in 1..Len(state.rules) :
        (Matched /\ \A i \in 1..Len(Branches(state.rules[n])) :
                        Compound(Branches(state.rules[n])[i]))
            => (state.rules[n] \in match_call.rules
                   <=> \E i \in 1..Len(Branches(state.rules[n])) :
                          \/ Branches(state.rules[n])[i] = match_call.selector
                          \/ ClassPartAndNoOtherId(Branches(state.rules[n])[i],
                                                   match_call.object_name,
                                                   match_call.class_name))

\* the store holds `X Y` and `X > #b`; widget (a, X) was asked for: `X Y` matched
\* through its part X, `X > #b` was excluded by its id part
C34_Witness ==
    /\ Matched
    /\ match_call.object_name = <<"a">> /\ match_call.class_name = <<"X">>
    /\ match_call.selector = <<"Y">>
    /\ {r.selector : r \in match_call.rules} = {<<"X", SP, "Y">>}
    /\ StoredSelectors = {<<"X", SP, "Y">>, <<"X", SP, ">", SP, "#", "b">>}

\* the widget's own id selector or class selector
OwnSelectors(object_name, class_name) == {<<"#">> \o object_name, class_name}

\* the base of the simple branch is the base of the selector, and it is the
\* widget's own id or class
SameOwnBase(branch, selector, object_name, class_name) ==
    /\ BaseOf(Strip(RemoveAttributes(branch))) = BaseOf(selector)
    /\ BaseOf(selector) \in OwnSelectors(object_name, class_name)

\* every branch of the rule is simple: no space, no '>'
AllSimple(rule) ==
    \A i \in 1..Len(Branches(rule)) : ~Compound(Branches(rule)[i])

GroupBranches(line) == StripAll(Split(Strip(SubSeq(line, 1, Len(line) - 1)), ","))

\* the step of check_format() on a line that opens a block with a comma-group in
\* which a branch carries a pseudo marker, taken outside every block and comment:
\* validate_selector_syntax is called on the group
PseudoGroupStep ==
    /\ pc = "check" /\ pc' = "check"
    /\ Len(checked') = Len(checked) + 1
    /\ checked'[Len(checked')] \in {L_PseudoGroup, L_PseudoDup, L_PseudoBad}
    /\ ~locals.in_rule /\ ~locals.in_variables /\ ~locals.in_comment
    /\ selector_buffer = <<>>

\* the diagnostics the step added
AddedBy(before, after) == SubSeq(after, Len(before) + 1, Len(after))

PseudoInGroup == "Pseudo-states in comma-separated selectors are not supported"

\* C36, as the spec states it: for a comma-group in which a branch carries a pseudo
\* marker validate_selector_syntax returns exactly one diagnostic, the
\* pseudo-in-comma-group one
C36_OnlyPseudoDiagnostic ==
    [][PseudoGroupStep
          => /\ Len(AddedBy(locals.errors, locals'.errors)) = 1
             /\ AddedBy(locals.errors, locals'.errors)[1].kind = PseudoInGroup]_vars

\* C36, amended: for such a group validate_selector_syntax returns one
\* duplicate-selector diagnostic for every repeated branch and then exactly one
\* pseudo-in-comma-group diagnostic, and nothing of the checks that follow
C36_DuplicatesThenPseudoDiagnostic ==
    [][PseudoGroupStep
          => /\ Len(AddedBy(locals.errors, locals'.errors))
                  = 1 + Len(GroupBranches(checked'[Len(checked')]))
                      - Cardinality({GroupBranches(checked'[Len(checked')])[i] :
                                       i \in 1..Len(GroupBranches(checked'[Len(checked')]))})
             /\ AddedBy(locals.errors, locals'.errors)[Len(AddedBy(locals.errors,
                                                                  locals'.errors))].kind
                  = PseudoInGroup
             /\ \A i \in 1..(Len(AddedBy(locals.errors, locals'.errors)) - 1) :
                   AddedBy(locals.errors, locals'.errors)[i].kind
                       = "Duplicate selector in comma-separated list"]_vars

\* the group `X:hover, X:hover` got the diagnostic of its repeated branch and the
\* pseudo-in-comma-group one
C36_Witness ==
    /\ pc = "check"
    /\ checked = <<L_PseudoDup>>
    /\ Len(locals.errors) = 2
    /\ locals.errors[1].kind = "Duplicate selector in comma-separated list"
    /\ locals.errors[2].kind = PseudoInGroup

\* the line of the text that opened the block line i is written in: the last
\* opener before line i with no '}' between them; 0 if line i is in no block
OpenerOf(text, i) ==
    IF \E j \in 1..(i - 1) : /\ text[j] \in {L_Open, L_OpenY}
                             /\ \A k \in (j + 1)..(i - 1) : text[k] # L_Close
    THEN Max({j \in 1..(i - 1) : /\ text[j] \in {L_Open, L_OpenY}
                                 /\ \A k \in (j + 1)..(i - 1) : text[k] # L_Close})
    ELSE 0

\* line i of the text is a property line of the given name, written in a block
\* whose selector list holds sel
WrittenFor(text, i, name, sel) ==
    /\ Contains(text[i], <<":">>)
    /\ Strip(SplitOnce(text[i], ":")[1]) = name
    /\ OpenerOf(text, i) # 0
    /\ \E b \in 1..Len(GroupBranches(text[OpenerOf(text, i)])) :
          GroupBranches(text[OpenerOf(text, i)])[b] = sel

\* C37: every property stored in the rule of a selector S was written inside a
\* block whose selector list holds S, also when a block lacks its '}' before the
\* next block opens: the text of another block is never attached to S
C37_PropertiesFromOwnBlock ==
    \A n \in 1..Len(state.rules) :
        \A j \in 1..Len(state.rules[n].properties) :
            \E i \in 1..Len(parsed) :
                WrittenFor(parsed, i, state.rules[n].properties[j].name,
                           state.rules[n].selector)

\* the step of parse() on a line that holds a rule using var(--v), taken outside
\* every @variables block
UseStep ==
    /\ pc = "parse" /\ pc' = "parse"
    /\ Len(parsed') = Len(parsed) + 1
    /\ parsed'[Len(parsed')] \in {L_UseVar, L_UseVarY}
    /\ ~state.in_variables

\* a step of parse() that defines variables or closes an @variables block
DefineStep ==
    /\ pc = "parse"
    /\ \/ variables' # variables
       \/ state.in_variables /\ ~state'.in_variables

\* what var(--v) stands for under a table: the value of --v if the table defines
\* it, the reference itself otherwise
ValueUnder(table) ==
    IF <<"-", "-", "v">> \in DOMAIN table THEN table[<<"-", "-", "v">>] ELSE V_V

ExpandDepth == IF expand.stack = <<>> THEN 0 ELSE Len(expand.stack) - 1

\* the step-by-step call gives what resolve_variable gives
ExpandAgrees ==
    (pc = "expand" /\ expand.done)
        => /\ expand.result = resolve_variable(variables, expand.value).value
           /\ (expand.errors # <<>>)
                 => resolve_variable(variables, expand.value).error = expand.errors[1]

\* C39: resolve_variable terminates for every variable table, also one with
\* variables that refer to themselves or to each other: the set of names being
\* expanded has one name for each nesting level, so the depth never exceeds the
\* number of defined variables, the set is empty again when the call returns, and
\* every call that has begun does return
C39_ExpansionTerminates ==
    /\ [](pc = "expand"
            => /\ Cardinality(expand.visited) = ExpandDepth
               /\ ExpandDepth <= Cardinality(DOMAIN variables)
               /\ expand.done => expand.visited = {})
    /\ (pc = "expand") ~> (pc = "expand" /\ expand.done)

\* --a and --b refer to each other; resolve_variable("var(--a)") has gone two levels
\* deep, met --a again and returned with the reference left in place
C39_Witness ==
    /\ pc = "expand" /\ expand.done
    /\ expand.value = V_A
    /\ <<"-", "-", "a">> \in DOMAIN variables /\ variables[<<"-", "-", "a">>] = V_B
    /\ <<"-", "-", "b">> \in DOMAIN variables /\ variables[<<"-", "-", "b">>] = V_A
    /\ expand.errors # <<>>
    /\ expand.result = V_A
    /\ expand.visited = {}

\* C40: at every step of check_format() the open-brace counter is never negative,
\* it is greater than zero exactly when the validator is inside a rule or inside
\* an @variables block, and the validator is never inside both at once
C40_BraceCounterTracksBlocks ==
    /\ locals.open_braces >= 0
    /\ (locals.open_braces > 0) <=> (locals.in_rule \/ locals.in_variables)
    /\ ~(locals.in_rule /\ locals.in_variables)

\* an @variables block was opened and closed, then a rule was opened and a second
\* opener met inside it: the counter is 2 inside the rule
C40_Witness ==
    /\ pc = "check"
    /\ checked = <<L_VarsOpen, L_Close, L_Open, L_Open>>
    /\ locals.open_braces = 2
    /\ locals.in_rule /\ ~locals.in_variables

====
